---------------------------- MODULE Spec2Model ----------------------------
(***************************************************************************)
(* A model of the offer-extraction engine of teklif_listeleme              *)
(* (src/main.py): the amount normalizer, the currency normalizer, the      *)
(* amount extractor, the offer classifier and the parse orchestrator.      *)
(*                                                                         *)
(* Representation.                                                         *)
(*  - A Python str is a TLA+ string; TLC's Len, SubSeq and \o act on it    *)
(*    character by character.  TLA+ strings are ASCII, so the non-ASCII    *)
(*    characters of the source are written with stand-ins:                 *)
(*        "@" is the euro sign, "#" is the lira sign (both caseless),      *)
(*        "x"/"X" is s-cedilla, "w"/"W" is u-umlaut (neither letter        *)
(*        occurs in a keyword of the source),                              *)
(*        "i" is also the dotless i of the patterns: under re.IGNORECASE   *)
(*        the dotless i, i and I match one another.                        *)
(*  - Python's None is NoneVal == <<>>, a value v of an Optional is        *)
(*    Some(v) == <<v>>.                                                    *)
(*  - A float is the exact decimal it was parsed from, [m |-> m, e |-> e]  *)
(*    standing for m / 10^e with trailing zeros removed.  Two decimal      *)
(*    strings of at most 15 significant digits denote the same double      *)
(*    exactly when they denote the same decimal, so equality of results    *)
(*    is preserved within the bounds of the model.                         *)
(***************************************************************************)
EXTENDS Integers, Sequences, FiniteSets, TLC

VARIABLES
    pc,        \* which operation has run: "ready" before, its name after
    raw_in,    \* parse_amount: the raw_amount argument
    cur_in,    \* parse_amount / normalize_currency: the currency argument
    amt_out,   \* parse_amount: the returned pair <<amount, currency>>
    cur_out,   \* normalize_currency: the returned value
    cur_out2,  \* normalize_currency applied to its own result
    firm_in,   \* looks_like_offer: the firm argument
    subject_in,\* looks_like_offer: the subject argument
    amount_in, \* looks_like_offer: the amount argument
    offer_out, \* looks_like_offer: the returned bool
    path,      \* parse_offer: the path argument
    disk,      \* the PDF file at that path, as PyPDF2 reads it
    record,    \* parse_offer: the returned OfferRecord, or NoneVal
    name_in,   \* normalize_firm_name: the firm argument
    name_out,  \* normalize_firm_name: the returned name
    name_out2, \* normalize_firm_name applied to its own result
    pages_in,  \* the extractors: the pages_text argument
    firm_out,  \* extract_firm: the returned firm
    subject_out, \* extract_subject: the returned subject
    amount_out,\* extract_amount_from_pages: the returned pair
    batch_paths, \* process_files: the paths argument
    batch_disk, \* process_files: the file behind each path
    batch_index, \* process_files: the number of paths the loop has done
    attempted, \* history: the paths parse_offer was called with, in order
    records,   \* process_files: the records list
    errors,    \* process_files: the errors list
    db_rows,   \* the rows of table teklifler
    db_next_id, \* the id AUTOINCREMENT gives the next inserted row
    db_clock,  \* datetime.now(), in seconds
    db_calls,  \* the number of database calls made so far
    db_args,   \* the records of the last save_offer or save_offers_batch call
    db_result, \* the value the last database call returned
    scan_root, \* scan_company_offer_pdfs: the root_folder argument
    scan_fs,   \* the directories and files under root_folder
    scan_out,  \* scan_company_offer_pdfs: the returned list
    parsed_offers \* st.session_state.parsed_offers

vars == <<pc, raw_in, cur_in, amt_out, cur_out, cur_out2,
          firm_in, subject_in, amount_in, offer_out, path, disk, record,
          name_in, name_out, name_out2,
          pages_in, firm_out, subject_out, amount_out,
          batch_paths, batch_disk, batch_index, attempted, records, errors,
          db_rows, db_next_id, db_clock, db_calls, db_args, db_result,
          scan_root, scan_fs, scan_out,
          parsed_offers>>

\* the variables of the normalizers, of the classifier
norm_vars == <<raw_in, cur_in, amt_out, cur_out, cur_out2>>
class_vars == <<firm_in, subject_in, amount_in, offer_out>>
parse_vars == <<path, disk, record>>
name_vars == <<name_in, name_out, name_out2>>
extract_vars == <<pages_in, firm_out, subject_out, amount_out>>
batch_vars == <<batch_paths, batch_disk, batch_index, attempted, records, errors>>
db_vars == <<db_rows, db_next_id, db_clock, db_calls, db_args, db_result>>
scan_vars == <<scan_root, scan_fs, scan_out>>
flow_vars == <<parsed_offers>>

NoneVal == <<>>
Some(v) == <<v>>

---------------------------------------------------------------------------
(* Bounds of the model.                                                    *)

\* longest enumerated raw amount token
MaxRawLen == 5
\* longest enumerated currency token
MaxCurLen == 3
\* longest enumerated firm or subject given to the classifier
MaxFieldLen == 3
\* most pages of an enumerated document
MaxPages == 2
\* longest enumerated firm name given to the normalizer
MaxNameLen == 4

---------------------------------------------------------------------------
(* Python str primitives.                                                  *)

CharAt(s, i) == SubSeq(s, i, i)

\* str.isspace() for the characters of the model
IsSpace(c) == c \in {" ", "\t", "\n", "\r"}

IsDigit(c) == c \in {"0", "1", "2", "3", "4", "5", "6", "7", "8", "9"}

\* "x in s" for a one-character x
Contains(s, c) == \E i \in 1..Len(s) : CharAt(s, i) = c

\* the least and the greatest element of a non-empty set of integers
MinOf(S) == CHOOSE x \in S : \A y \in S : x <= y
MaxOf(S) == CHOOSE x \in S : \A y \in S : x >= y

\* the strings piece[lo], ..., piece[hi] joined, by halves
RECURSIVE Concat(_, _, _)
Concat(piece, lo, hi) ==
    IF lo > hi THEN ""
    ELSE IF lo = hi THEN piece[lo]
    ELSE LET mid == (lo + hi) \div 2
         IN  Concat(piece, lo, mid) \o Concat(piece, mid + 1, hi)

\* s.replace(c, rep) for a one-character c
Replace(s, c, rep) ==
    Concat([i \in 1..Len(s) |-> IF CharAt(s, i) = c THEN rep ELSE CharAt(s, i)],
           1, Len(s))

\* s.strip()
Strip(s) ==
    LET keep == {i \in 1..Len(s) : ~IsSpace(CharAt(s, i))}
    IN  IF keep = {} THEN "" ELSE SubSeq(s, MinOf(keep), MaxOf(keep))

\* s.rfind(c), one-based: the last index of c in s, 0 when c is absent
\* (Python: zero-based, -1 when absent; the order of two results is the same)
RFind(s, c) ==
    IF Contains(s, c) THEN MaxOf({i \in 1..Len(s) : CharAt(s, i) = c}) ELSE 0

\* len(s.split(c)[-1]): the length of the text after the last c
LenLastPart(s, c) == Len(s) - RFind(s, c)

UpperChar(c) ==
    CASE c = "a" -> "A" [] c = "b" -> "B" [] c = "c" -> "C" [] c = "d" -> "D"
      [] c = "e" -> "E" [] c = "f" -> "F" [] c = "g" -> "G" [] c = "h" -> "H"
      [] c = "i" -> "I" [] c = "j" -> "J" [] c = "k" -> "K" [] c = "l" -> "L"
      [] c = "m" -> "M" [] c = "n" -> "N" [] c = "o" -> "O" [] c = "p" -> "P"
      [] c = "q" -> "Q" [] c = "r" -> "R" [] c = "s" -> "S" [] c = "t" -> "T"
      [] c = "u" -> "U" [] c = "v" -> "V" [] c = "w" -> "W" [] c = "x" -> "X"
      [] c = "y" -> "Y" [] c = "z" -> "Z" [] OTHER -> c

LowerChar(c) ==
    CASE c = "A" -> "a" [] c = "B" -> "b" [] c = "C" -> "c" [] c = "D" -> "d"
      [] c = "E" -> "e" [] c = "F" -> "f" [] c = "G" -> "g" [] c = "H" -> "h"
      [] c = "I" -> "i" [] c = "J" -> "j" [] c = "K" -> "k" [] c = "L" -> "l"
      [] c = "M" -> "m" [] c = "N" -> "n" [] c = "O" -> "o" [] c = "P" -> "p"
      [] c = "Q" -> "q" [] c = "R" -> "r" [] c = "S" -> "s" [] c = "T" -> "t"
      [] c = "U" -> "u" [] c = "V" -> "v" [] c = "W" -> "w" [] c = "X" -> "x"
      [] c = "Y" -> "y" [] c = "Z" -> "z" [] OTHER -> c

\* s.upper()
Upper(s) == Concat([i \in 1..Len(s) |-> UpperChar(CharAt(s, i))], 1, Len(s))

---------------------------------------------------------------------------
(* Regular expressions (module re).  A pattern is a tree of nodes; M is    *)
(* the backtracking matcher, which tries the choices of every node in the  *)
(* order Python's engine tries them and returns the first match found.     *)
(* All patterns of the source are compiled with re.IGNORECASE: literals    *)
(* are compared without regard to case.                                    *)

Lit(w) == [t |-> "lit", w |-> w]                    \* the text w
One(cls) == [t |-> "one", cls |-> cls]              \* one character of a class
Rep(cls, min, greedy) ==                            \* class{min,} or class{min,}?
    [t |-> "rep", cls |-> cls, min |-> min, greedy |-> greedy]
Opt(x) == [t |-> "opt", x |-> x]                    \* x?
Alt(xs) == [t |-> "alt", xs |-> xs]                 \* x1|x2|...
Cat(xs) == [t |-> "cat", xs |-> xs]                 \* x1x2...
Grp(n, x) == [t |-> "grp", n |-> n, x |-> x]        \* capturing group n
WordB == [t |-> "wordb"]                            \* \b

IsWordChar(c) ==
    IsDigit(c) \/ c = "_" \/ LowerChar(c) # c \/ UpperChar(c) # c

\* the character classes of the source's patterns
InClass(c, cls) ==
    CASE cls = "\\s" -> IsSpace(c)
      [] cls = "[\\d.,\\s]" -> IsDigit(c) \/ c \in {".", ","} \/ IsSpace(c)
      [] cls = "." -> c # "\n"
      [] cls = "[^)]" -> c # ")"
      [] cls = "[:-]" -> c \in {":", "-"}
      [] cls = "(" -> c = "("
      [] cls = ")" -> c = ")"

Ws0 == Rep("\\s", 0, TRUE)     \* \s*
Ws1 == Rep("\\s", 1, TRUE)     \* \s+

\* the literal w occurs in text at position i, case ignored
RECURSIVE MatchFrom(_, _, _, _)
MatchFrom(text, i, w, k) ==
    \/ k > Len(w)
    \/ /\ LowerChar(CharAt(text, i + k - 1)) = LowerChar(CharAt(w, k))
       /\ MatchFrom(text, i, w, k + 1)

MatchAt(text, i, w) == i + Len(w) - 1 <= Len(text) /\ MatchFrom(text, i, w, 1)

\* the number of consecutive characters of the class from position i on
RunLen(text, i, cls) ==
    LET stop == {j \in i..Len(text) : ~InClass(CharAt(text, j), cls)}
    IN  (IF stop = {} THEN Len(text) + 1 ELSE MinOf(stop)) - i

AtWordBoundary(text, i) ==
    (i > 1 /\ IsWordChar(CharAt(text, i - 1)))
        # (i <= Len(text) /\ IsWordChar(CharAt(text, i)))

\* A match in progress: the position reached and the spans of the groups
\* (<<0, 0>>: the group did not take part).
StartAt(i) == [start |-> i, pos |-> i, g |-> <<<<0, 0>>, <<0, 0>>>>]

\* the first result if it is a match, else the second: the engine backtracks
\* into the next choice only when the earlier one failed
FirstMatch(r, other) == IF r # NoneVal THEN r ELSE other

\* among the counts of a repetition that let the rest match, the one the
\* engine reaches first: the greatest when greedy, the least when lazy
FirstCount(found, greedy) ==
    IF found = {} THEN NoneVal
    ELSE (CHOOSE r \in found :
              \A q \in found : IF greedy THEN q[1] <= r[1]
                                         ELSE q[1] >= r[1])[2]

\* among the matches found at the start positions, the leftmost
Leftmost(found) ==
    IF found = {} THEN NoneVal
    ELSE CHOOSE r \in found : \A q \in found : r[1].start <= q[1].start

RECURSIVE M(_, _, _)
RECURSIVE TryRep(_, _, _, _, _, _)
RECURSIVE TryAlt(_, _, _, _)

\* match the nodes one after the other from st on: Some(final state) or NoneVal
M(nodes, text, st) ==
    IF Len(nodes) = 0 THEN Some(st)
    ELSE LET n == Head(nodes)
             rest == Tail(nodes)
         IN  CASE n.t = "lit" ->
                    IF MatchAt(text, st.pos, n.w)
                    THEN M(rest, text, [st EXCEPT !.pos = @ + Len(n.w)])
                    ELSE NoneVal
               [] n.t = "one" ->
                    IF st.pos <= Len(text) /\ InClass(CharAt(text, st.pos), n.cls)
                    THEN M(rest, text, [st EXCEPT !.pos = @ + 1])
                    ELSE NoneVal
               [] n.t = "rep" ->
                    LET run == RunLen(text, st.pos, n.cls)
                    IN  IF run < n.min THEN NoneVal
                        ELSE IF n.greedy
                             THEN TryRep(rest, text, st, n.min, run, TRUE)
                             ELSE TryRep(rest, text, st, n.min, run, FALSE)
               [] n.t = "opt" ->
                    FirstMatch(M(<<n.x>> \o rest, text, st), M(rest, text, st))
               [] n.t = "alt" -> TryAlt(n.xs, rest, text, st)
               [] n.t = "cat" -> M(n.xs \o rest, text, st)
               [] n.t = "grp" ->
                    M(<<n.x, [t |-> "end", n |-> n.n, s |-> st.pos]>> \o rest,
                      text, st)
               [] n.t = "end" ->
                    M(rest, text, [st EXCEPT !.g[n.n] = <<n.s, st.pos>>])
               [] n.t = "wordb" ->
                    IF AtWordBoundary(text, st.pos) THEN M(rest, text, st)
                    ELSE NoneVal

\* A repetition that may take lo..hi characters: the engine tries the
\* counts from hi down when greedy, from lo up when lazy, and keeps the first
\* with which the rest of the pattern matches.
TryRep(rest, text, st, lo, hi, greedy) ==
    FirstCount({r \in {<<k, M(rest, text, [st EXCEPT !.pos = @ + k])>> :
                           k \in lo..hi} : r[2] # NoneVal},
               greedy)

\* the alternatives in the order written
TryAlt(xs, rest, text, st) ==
    IF Len(xs) = 0 THEN NoneVal
    ELSE FirstMatch(M(<<Head(xs)>> \o rest, text, st),
                    TryAlt(Tail(xs), rest, text, st))

\* pattern.search(text): the match at the leftmost position that has one
Search(pattern, text) ==
    Leftmost({r \in {M(<<pattern>>, text, StartAt(i)) :
                         i \in 1..(Len(text) + 1)} : r # NoneVal})

\* match.group(n), for a group that took part in the match
Group(text, match, n) ==
    SubSeq(text, match[1].g[n][1], match[1].g[n][2] - 1)

---------------------------------------------------------------------------
(* float(s): the decimal a string denotes, or a ValueError (NoneVal).      *)

DigitVal(c) ==
    CASE c = "0" -> 0 [] c = "1" -> 1 [] c = "2" -> 2 [] c = "3" -> 3
      [] c = "4" -> 4 [] c = "5" -> 5 [] c = "6" -> 6 [] c = "7" -> 7
      [] c = "8" -> 8 [] c = "9" -> 9

RECURSIVE DigitsVal(_)
DigitsVal(s) ==
    IF s = "" THEN 0
    ELSE 10 * DigitsVal(SubSeq(s, 1, Len(s) - 1)) + DigitVal(CharAt(s, Len(s)))

AllDigits(s) == \A i \in 1..Len(s) : IsDigit(CharAt(s, i))

\* m / 10^e without trailing zeros in the fraction
RECURSIVE Dec(_, _)
Dec(m, e) ==
    IF e > 0 /\ m % 10 = 0 THEN Dec(m \div 10, e - 1) ELSE [m |-> m, e |-> e]

\* float(s) on strings of digits, '.', ',' and whitespace: surrounding
\* whitespace is ignored; what is left must be digits with at most one '.',
\* and at least one digit.
Float(s) ==
    LET t == Strip(s)
        p == RFind(t, ".")
        ip == IF p = 0 THEN t ELSE SubSeq(t, 1, p - 1)
        fp == IF p = 0 THEN "" ELSE SubSeq(t, p + 1, Len(t))
    IN  IF AllDigits(ip) /\ AllDigits(fp) /\ Len(ip) + Len(fp) > 0
        THEN Some(Dec(DigitsVal(ip \o fp), Len(fp)))
        ELSE NoneVal

---------------------------------------------------------------------------
(* normalize_currency                                                      *)

normalize_currency(currency) ==
    IF currency = NoneVal \/ currency = Some("") THEN NoneVal
    ELSE LET currency_upper == Strip(Upper(currency[1]))
         IN  IF currency_upper \in {"@", "EURO", "EUR"} THEN Some("EUR")
             ELSE IF currency_upper \in {"#", "TL", "TRY"} THEN Some("TL")
             ELSE IF currency_upper = "USD" THEN Some("USD")
             ELSE Some(currency_upper)

---------------------------------------------------------------------------
(* parse_amount                                                            *)

\* raw_amount.replace(" ", "").strip()
remove_spaces(raw_amount) == Strip(Replace(raw_amount, " ", ""))

\* the token is rejected as noise: fewer than 3 characters are left once
\* every '.' and ',' is removed
is_noise(raw) == Len(Replace(Replace(raw, ".", ""), ",", "")) < 3

\* a plausible slip: the first separator, not the last, decides
normalize_both_first(raw) ==
    LET first(c) == CHOOSE i \in 1..Len(raw) :
                        CharAt(raw, i) = c
                            /\ \A j \in 1..(i - 1) : CharAt(raw, j) # c
    IN  IF first(",") > first(".")
        THEN Replace(Replace(raw, ".", ""), ",", ".")
        ELSE Replace(raw, ",", "")

\* both ',' and '.' occur
normalize_both(raw) ==
    IF RFind(raw, ",") > RFind(raw, ".")
    THEN Replace(Replace(raw, ".", ""), ",", ".")
    ELSE Replace(raw, ",", "")

\* a plausible slip: a lone comma read as a thousands separator
normalize_comma_only_thousands(raw) == Replace(raw, ",", "")

\* only ',' occurs
normalize_comma_only(raw) == Replace(raw, ",", ".")

\* a plausible slip: the first part, not the last, is measured
normalize_dot_only_first_part(raw) ==
    LET first == CHOOSE i \in 1..Len(raw) :
                     CharAt(raw, i) = "."
                         /\ \A j \in 1..(i - 1) : CharAt(raw, j) # "."
    IN  IF first - 1 = 3 THEN Replace(raw, ".", "") ELSE raw

\* a plausible slip: every dot is a decimal point
normalize_dot_only_decimal(raw) == raw

\* only '.' occurs
normalize_dot_only(raw) ==
    IF LenLastPart(raw, ".") = 3 THEN Replace(raw, ".", "") ELSE raw

\* the string handed to float()
amount_normalized(raw) ==
    IF Contains(raw, ",") /\ Contains(raw, ".") THEN normalize_both(raw)
    ELSE IF Contains(raw, ",") THEN normalize_comma_only(raw)
    ELSE IF Contains(raw, ".") THEN normalize_dot_only(raw)
    ELSE raw

\* try: amount = float(normalized) ... except ValueError: return None, None
amount_with_currency(amount, currency) ==
    IF amount = NoneVal THEN <<NoneVal, NoneVal>>
    ELSE <<amount, normalize_currency(currency)>>

\* parse_amount once the spaces are removed
parse_amount_of(raw, currency) ==
    IF is_noise(raw) THEN <<NoneVal, NoneVal>>
    ELSE amount_with_currency(Float(amount_normalized(raw)), currency)

parse_amount(raw_amount, currency) ==
    parse_amount_of(remove_spaces(raw_amount), currency)

---------------------------------------------------------------------------
(* Inputs.                                                                 *)

\* all strings over the characters A of length at most n
RECURSIVE StringsUpTo(_, _)
StringsUpTo(A, n) ==
    IF n = 0 THEN {""}
    ELSE LET P == StringsUpTo(A, n - 1)
         IN  P \cup {s \o c : s \in P, c \in A}

\* all sequences over S of length at most n
RECURSIVE SeqsUpTo(_, _)
SeqsUpTo(S, n) ==
    IF n = 0 THEN {<<>>}
    ELSE LET P == SeqsUpTo(S, n - 1)
         IN  P \cup {Append(q, x) : q \in P, x \in S}

RawAlphabet == {"0", "1", ".", ",", " "}

\* the tokens the documentation and the comments of parse_amount name, and
\* one in which the separator written first is not the one written last
RawExamples ==
    {"1.677 289,00", "1,234.56", "27.560", "1.234.567", "27.56", "1234.56",
     "1,925,000", "1.00", "2.00", "0,00", "0000", "1.125", "1234,56",
     "27.560,50", "27,560.50", "157.500", "12\t3", "1.2345", "1,234.567,89"}

RawAmounts == StringsUpTo(RawAlphabet, MaxRawLen) \cup RawExamples

CurAlphabet == {"t", "T", "l", "L", " ", "#"}

\* every way of writing s in upper and lower case
RECURSIVE CaseVariants(_)
CaseVariants(s) ==
    IF s = "" THEN {""}
    ELSE {h \o t : h \in {UpperChar(CharAt(s, 1)), LowerChar(CharAt(s, 1))},
                   t \in CaseVariants(SubSeq(s, 2, Len(s)))}

CurrencyTokens ==
    StringsUpTo(CurAlphabet, MaxCurLen)
        \cup CaseVariants("euro") \cup CaseVariants("eur")
        \cup CaseVariants("usd") \cup CaseVariants("try")
        \cup {"@", "$", "gbp", " Eur ", "\tusd\n", " gbp", "Chf ", "euros"}

Currencies == {NoneVal} \cup {Some(c) : c \in CurrencyTokens}

\* the currencies parse_amount is exercised with
ParseCurrencies == {NoneVal, Some("EUR"), Some("Euro"), Some("USD"), Some("@")}

---------------------------------------------------------------------------
(* AMOUNT_PATTERNS and extract_amount_from_pages                           *)

\* (?:\([^\)]*\))?
OptParenthesised == Opt(Cat(<<One("("), Rep("[^)]", 0, TRUE), One(")")>>))

\* ([\d\.\,\s]{4,}?)
RawAmountGroup == Grp(1, Rep("[\\d.,\\s]", 4, FALSE))

\* (?:Toplam\s*(?:Tutar|Fiyat)?|Teklif\s*Tutarı|Tutar)\s*[:\-]?\s*
\*     (?:\([^\)]*\))?\s*([\d\.\,\s]{4,}?)\s*(€|TL|₺|USD|EUR|euro)
\* (the dotless i of "Tutarı" matches i and I under IGNORECASE)
AMOUNT_PATTERN_TR ==
    Cat(<<Alt(<<Cat(<<Lit("Toplam"), Ws0,
                      Opt(Alt(<<Lit("Tutar"), Lit("Fiyat")>>))>>),
                Cat(<<Lit("Teklif"), Ws0, Lit("Tutari")>>),
                Lit("Tutar")>>),
          Ws0, Opt(One("[:-]")), Ws0, OptParenthesised, Ws0,
          RawAmountGroup, Ws0,
          Grp(2, Alt(<<Lit("@"), Lit("TL"), Lit("#"), Lit("USD"), Lit("EUR"),
                       Lit("euro")>>))>>)

\* (?:Sum|Total\s*(?:Price|Quote|Cost|Amount)?|Grand\s*Total)\s*[:\-]?\s*
\*     (?:\([^\)]*\))?\s+([\d\.\,\s]{4,}?)\s*(€|TL|₺|USD|EUR|euro|\$)
AMOUNT_PATTERN_EN ==
    Cat(<<Alt(<<Lit("Sum"),
                Cat(<<Lit("Total"), Ws0,
                      Opt(Alt(<<Lit("Price"), Lit("Quote"), Lit("Cost"),
                                Lit("Amount")>>))>>),
                Cat(<<Lit("Grand"), Ws0, Lit("Total")>>)>>),
          Ws0, Opt(One("[:-]")), Ws0, OptParenthesised, Ws1,
          RawAmountGroup, Ws0,
          Grp(2, Alt(<<Lit("@"), Lit("TL"), Lit("#"), Lit("USD"), Lit("EUR"),
                       Lit("euro"), Lit("$")>>))>>)

\* ([\d\.\,\s]{4,}?)\s*(€|TL|₺|USD|EUR|euro|\$)
AMOUNT_PATTERN_BARE ==
    Cat(<<RawAmountGroup, Ws0,
          Grp(2, Alt(<<Lit("@"), Lit("TL"), Lit("#"), Lit("USD"), Lit("EUR"),
                       Lit("euro"), Lit("$")>>))>>)

AMOUNT_PATTERNS == <<AMOUNT_PATTERN_TR, AMOUNT_PATTERN_EN, AMOUNT_PATTERN_BARE>>

\* the body of the two loops for one pattern and one page: the normalized
\* first match, <<NoneVal, NoneVal>> when there is none or it does not parse
\* a plausible slip: the currency group of the match is not read
amount_of_no_currency(page_text, match) ==
    IF match = NoneVal THEN <<NoneVal, NoneVal>>
    ELSE parse_amount(Strip(Group(page_text, match, 1)), NoneVal)

\* what one pattern.search(page_text) yields: the normalized match,
\* <<NoneVal, NoneVal>> when there is none or it does not parse
amount_of(page_text, match) ==
    IF match = NoneVal THEN <<NoneVal, NoneVal>>
    ELSE parse_amount(Strip(Group(page_text, match, 1)),
                      IF match[1].g[2] # <<0, 0>>
                      THEN Some(Group(page_text, match, 2)) ELSE NoneVal)

amount_of_match(pattern, page_text) ==
    amount_of(page_text, Search(pattern, page_text))

\* "if amount is not None: return amount, normalized_currency", else go on
FirstAmount(r, other) == IF r[1] # NoneVal THEN r ELSE other

\* a plausible slip: the loops nested the other way round (page-major)
RECURSIVE amount_scan_page_major(_, _, _)
amount_scan_page_major(pages_text, p, q) ==
    IF q > Len(pages_text) THEN <<NoneVal, NoneVal>>
    ELSE IF p > Len(AMOUNT_PATTERNS)
         THEN amount_scan_page_major(pages_text, 1, q + 1)
    ELSE FirstAmount(amount_of_match(AMOUNT_PATTERNS[p], pages_text[q]),
                     amount_scan_page_major(pages_text, p + 1, q))

\* for pattern in AMOUNT_PATTERNS: for page_text in pages_text: ...
\* from pattern p and page q on
RECURSIVE amount_scan(_, _, _)
amount_scan(pages_text, p, q) ==
    IF p > Len(AMOUNT_PATTERNS) THEN <<NoneVal, NoneVal>>
    ELSE IF q > Len(pages_text) THEN amount_scan(pages_text, p + 1, 1)
    ELSE FirstAmount(amount_of_match(AMOUNT_PATTERNS[p], pages_text[q]),
                     amount_scan(pages_text, p, q + 1))

extract_amount_from_pages(pages_text) == amount_scan(pages_text, 1, 1)

---------------------------------------------------------------------------
(* Lines and sequences.                                                    *)

Min(a, b) == IF a < b THEN a ELSE b

\* seq[:n]
Take(seq, n) == SubSeq(seq, 1, Min(n, Len(seq)))

\* the position of the first line break of text at or after i
\* (Len(text) + 1 when there is none)
LineEnd(text, i) ==
    LET breaks == {j \in i..Len(text) : CharAt(text, j) \in {"\n", "\r"}}
    IN  IF breaks = {} THEN Len(text) + 1 ELSE MinOf(breaks)

\* [line.strip() for line in text.splitlines() if line.strip()], for the
\* lines of text from position i on
RECURSIVE StrippedLinesFrom(_, _)
StrippedLinesFrom(text, i) ==
    IF i > Len(text) THEN <<>>
    ELSE LET e == LineEnd(text, i)
             line == Strip(SubSeq(text, i, e - 1))
         IN  (IF line = "" THEN <<>> ELSE <<line>>)
                 \o StrippedLinesFrom(text, e + 1)

page_lines(page_text) == StrippedLinesFrom(page_text, 1)

\* "\n".join(lines)
RECURSIVE JoinLines(_)
JoinLines(ls) ==
    IF Len(ls) = 0 THEN ""
    ELSE IF Len(ls) = 1 THEN ls[1]
    ELSE ls[1] \o "\n" \o JoinLines(Tail(ls))

\* re.split(pattern, s)[0]: the text before the first match
Before(value, match) ==
    IF match = NoneVal THEN value ELSE SubSeq(value, 1, match[1].start - 1)

SplitFirst(pattern, value) == Before(value, Search(pattern, value))

---------------------------------------------------------------------------
(* normalize_firm_name                                                     *)

IsCased(c) == LowerChar(c) # c \/ UpperChar(c) # c

\* s.title(): a cased character is upper-cased after an uncased one (or at
\* the start) and lower-cased after a cased one
Title(s) ==
    Concat([i \in 1..Len(s) |->
               IF i > 1 /\ IsCased(CharAt(s, i - 1))
               THEN LowerChar(CharAt(s, i)) ELSE UpperChar(CharAt(s, i))],
           1, Len(s))

\* re.compile(re.escape(k), re.IGNORECASE).sub(v, s): every occurrence of
\* k, found from left to right without overlap, replaced by v
RECURSIVE SubFrom(_, _, _, _)
SubFrom(s, i, k, v) ==
    LET hits == {j \in i..Len(s) : MatchAt(s, j, k)}
    IN  IF hits = {} THEN SubSeq(s, i, Len(s))
        ELSE SubSeq(s, i, MinOf(hits) - 1) \o v
                 \o SubFrom(s, MinOf(hits) + Len(k), k, v)

\* _ABBREVIATIONS, in the order of the dict
ABBREVIATIONS ==
    <<<<"a.x", "A.X">>, <<"a.x.", "A.X.">>, <<"ltd", "Ltd.">>,
      <<"ltd.", "Ltd.">>, <<"xti", "Xti.">>, <<"xti.", "Xti.">>,
      <<"inc", "Inc.">>, <<"inc.", "Inc.">>, <<"gmbh", "GmbH">>>>

\* for pattern, replacement in _COMPILED_ABBR_PATTERNS: from entry j on
RECURSIVE fix_abbreviations(_, _)
fix_abbreviations(normalized, j) ==
    IF j > Len(ABBREVIATIONS) THEN normalized
    ELSE fix_abbreviations(
             SubFrom(normalized, 1, ABBREVIATIONS[j][1], ABBREVIATIONS[j][2]),
             j + 1)

normalize_firm_name(firm) ==
    IF firm = "" \/ Len(firm) <= 2 THEN firm
    ELSE Strip(fix_abbreviations(Title(firm), 1))

---------------------------------------------------------------------------
(* extract_field, extract_firm, extract_subject                            *)

\* \s+(?:Referans|Teklif\s*No|Tarih|Sayfa|Your|Offer|Page|History|Topic)
STOPWORDS ==
    Cat(<<Ws1, Alt(<<Lit("Referans"), Cat(<<Lit("Teklif"), Ws0, Lit("No")>>),
                     Lit("Tarih"), Lit("Sayfa"), Lit("Your"), Lit("Offer"),
                     Lit("Page"), Lit("History"), Lit("Topic")>>)>>)

\* re.split(STOPWORDS, value, flags=re.IGNORECASE)[0].strip()
trim_noise(value) == Strip(SplitFirst(STOPWORDS, value))

\* \s*[:\-]?\s*(.+)
OptDelimiterThenValue ==
    Cat(<<Ws0, Opt(One("[:-]")), Ws0, Grp(1, Rep(".", 1, TRUE))>>)

FIRM_PATTERNS ==
    <<\* (?:Firma\s*Adı|Firma|Şirket|Müşteri|Kurum|Kuruluş)\s*[:\-]?\s*(.+)
      Cat(<<Alt(<<Cat(<<Lit("Firma"), Ws0, Lit("Adi")>>), Lit("Firma"),
                  Lit("Xirket"), Lit("Mwxteri"), Lit("Kurum"),
                  Lit("Kurulux")>>),
            OptDelimiterThenValue>>),
      \* (?:Company\s*Name|Company|Client|Customer|Organization)\s*[:\-]?\s*(.+)
      Cat(<<Alt(<<Cat(<<Lit("Company"), Ws0, Lit("Name")>>), Lit("Company"),
                  Lit("Client"), Lit("Customer"), Lit("Organization")>>),
            OptDelimiterThenValue>>),
      \* (.+?(?:A\.Ş\.|A\.S\.|Ltd\.?\s*Şti\.?|San\.|Tic\.|Ltd\.|Inc\.|Corp\.|GmbH))
      Grp(1, Cat(<<Rep(".", 1, FALSE),
                   Alt(<<Lit("A.X."), Lit("A.S."),
                         Cat(<<Lit("Ltd"), Opt(Lit(".")), Ws0, Lit("Xti"),
                               Opt(Lit("."))>>),
                         Lit("San."), Lit("Tic."), Lit("Ltd."), Lit("Inc."),
                         Lit("Corp."), Lit("GmbH")>>)>>))>>

\* (?:Sayın|Dear)\s+(.+)
GREETINGS_PATTERN ==
    Cat(<<Alt(<<Lit("Sayin"), Lit("Dear")>>), Ws1, Grp(1, Rep(".", 1, TRUE))>>)

\* \b(hanım|bey)\b
HONORIFIC == Cat(<<WordB, Grp(1, Alt(<<Lit("hanim"), Lit("bey")>>)), WordB>>)

SUBJECT_PATTERNS ==
    <<Cat(<<Lit("Konu"), OptDelimiterThenValue>>),
      Cat(<<Lit("Teklif"), Ws0, Lit("Konusu"), OptDelimiterThenValue>>),
      Cat(<<Lit("Ilgi"), OptDelimiterThenValue>>),
      Cat(<<Lit("Subject"), OptDelimiterThenValue>>),
      Cat(<<Lit("Regarding"), OptDelimiterThenValue>>),
      Cat(<<Lit("Project"), OptDelimiterThenValue>>),
      \* (?:Re|RE|Ref)\s*[:\-]?\s*(.+)
      Cat(<<Alt(<<Lit("Re"), Lit("RE"), Lit("Ref")>>), OptDelimiterThenValue>>)>>

\* re.split(r"\n|\r", value)[0]
FirstLine(value) == SubSeq(value, 1, LineEnd(value, 1) - 1)

\* the value a match yields; without a match the later patterns decide
field_of(text, match, later) ==
    IF match = NoneVal THEN later
    ELSE trim_noise(Strip(FirstLine(Strip(Group(text, match, 1)))))

\* extract_field, from pattern j on: the value of the first pattern that
\* matches, "" when none does
RECURSIVE extract_field_from(_, _, _)
extract_field_from(patterns, text, j) ==
    IF j > Len(patterns) THEN ""
    ELSE field_of(text, Search(patterns[j], text),
                  extract_field_from(patterns, text, j + 1))

extract_field(patterns, text) == extract_field_from(patterns, text, 1)

\* (?:Firma\s*Adı|Firma|Company\s*Name)
FirmLabel ==
    Alt(<<Cat(<<Lit("Firma"), Ws0, Lit("Adi")>>), Lit("Firma"),
          Cat(<<Lit("Company"), Ws0, Lit("Name")>>)>>)

\* (?:Firma\s*Adı|Firma|Company\s*Name)\s*[:\-]
FIRM_LABEL_LINE == Cat(<<FirmLabel, Ws0, One("[:-]")>>)

\* (?:Firma\s*Adı|Firma|Company\s*Name)\s*[:\-]\s*(.+)
FIRM_LABEL_VALUE ==
    Cat(<<FirmLabel, Ws0, One("[:-]"), Ws0, Grp(1, Rep(".", 1, TRUE))>>)

\* the first value if one was found, else what the rest of the search finds
FirstFound(value, other) == IF value # "" THEN value ELSE other

\* One labelled line of extract_firm: the firm it yields (same line, else
\* next line), "" when the line has no label or yields nothing acceptable.
label_value(line, match) ==
    IF match = NoneVal THEN "" ELSE trim_noise(Strip(Group(line, match, 1)))

\* "if firm and len(firm) > 2: return firm", same line first, then the next
acceptable_firm(same, next) ==
    IF same # "" /\ Len(same) > 2 THEN same
    ELSE IF next # "" /\ Len(next) > 2 THEN next
    ELSE ""

firm_of_line(lines, i) ==
    IF Search(FIRM_LABEL_LINE, lines[i]) = NoneVal THEN ""
    ELSE acceptable_firm(
             label_value(lines[i], Search(FIRM_LABEL_VALUE, lines[i])),
             IF i + 1 <= Len(lines) THEN trim_noise(Strip(lines[i + 1])) ELSE "")

\* for i, line in enumerate(lines[:20]): the first firm a labelled line yields
RECURSIVE firm_by_label(_, _)
firm_by_label(lines, i) ==
    IF i > Min(20, Len(lines)) THEN ""
    ELSE FirstFound(firm_of_line(lines, i), firm_by_label(lines, i + 1))

\* "candidate = greet.group(1).strip(); if not re.search(honorific,
\* candidate) and len(candidate) > 2: return candidate"
acceptable_candidate(candidate) ==
    IF Search(HONORIFIC, candidate) = NoneVal /\ Len(candidate) > 2
    THEN candidate ELSE ""

\* the candidate one line yields, "" when it has no salutation
greeted(line, match) ==
    IF match = NoneVal THEN ""
    ELSE acceptable_candidate(Strip(Group(line, match, 1)))

\* for line in lines[:15]: the first acceptable salutation candidate
RECURSIVE firm_by_greeting(_, _)
firm_by_greeting(lines, i) ==
    IF i > Min(15, Len(lines)) THEN ""
    ELSE FirstFound(greeted(lines[i], Search(GREETINGS_PATTERN, lines[i])),
                    firm_by_greeting(lines, i + 1))

\* the body of extract_firm's loop for one page: the firm before
\* normalization, "" when the page yields none
header_firm(header) == IF header # "" /\ Len(header) > 2 THEN header ELSE ""

firm_of_lines(lines) ==
    IF Len(lines) = 0 THEN ""
    ELSE FirstFound(
             firm_by_label(lines, 1),
             FirstFound(
                 header_firm(extract_field(FIRM_PATTERNS,
                                           JoinLines(Take(lines, 12)))),
                 firm_by_greeting(lines, 1)))

firm_of_page(page_text) == firm_of_lines(page_lines(page_text))

\* "return normalize_firm_name(firm)" for the first page that yields a firm
normalized_or(firm, later) ==
    IF firm # "" THEN normalize_firm_name(firm) ELSE later

\* a plausible slip: the loop over every page, the [:3] left out
RECURSIVE extract_firm_from_every_page(_, _)
extract_firm_from_every_page(pages_text, q) ==
    IF q > Len(pages_text) THEN ""
    ELSE normalized_or(firm_of_page(pages_text[q]),
                       extract_firm_from_every_page(pages_text, q + 1))

\* for page_idx, page_text in enumerate(pages_text[:3]): from page q on
RECURSIVE extract_firm_from(_, _)
extract_firm_from(pages_text, q) ==
    IF q > Min(3, Len(pages_text)) THEN ""
    ELSE normalized_or(firm_of_page(pages_text[q]),
                       extract_firm_from(pages_text, q + 1))

extract_firm(pages_text) == extract_firm_from(pages_text, 1)

\* (?:Konu|Teklif\s*Konusu)\s*[:\-]
SubjectLabel == Alt(<<Lit("Konu"), Cat(<<Lit("Teklif"), Ws0, Lit("Konusu")>>)>>)
SUBJECT_LABEL_LINE == Cat(<<SubjectLabel, Ws0, One("[:-]")>>)
SUBJECT_LABEL_VALUE ==
    Cat(<<SubjectLabel, Ws0, One("[:-]"), Ws0, Grp(1, Rep(".", 1, TRUE))>>)

\* subject[:200]: the most characters a labelled subject keeps
SubjectLimit == 200

\* a labelled line: the value on the same line, else the next line, else
\* (the label is on the last line) the loop goes on
labelled_subject(lines, i, match, later) ==
    IF match # NoneVal
    THEN Some(Take(Strip(Group(lines[i], match, 1)), SubjectLimit))
    ELSE IF i + 1 <= Len(lines)
    THEN Some(Take(Strip(lines[i + 1]), SubjectLimit))
    ELSE later

\* The first labelled line among lines[:25] that returns: Some(subject), or
\* NoneVal when the loop ends without a return.
RECURSIVE subject_by_label(_, _)
subject_by_label(lines, i) ==
    IF i > Min(25, Len(lines)) THEN NoneVal
    ELSE IF Search(SUBJECT_LABEL_LINE, lines[i]) = NoneVal
         THEN subject_by_label(lines, i + 1)
    ELSE labelled_subject(lines, i, Search(SUBJECT_LABEL_VALUE, lines[i]),
                          subject_by_label(lines, i + 1))

\* the body of extract_subject's loop for one page: Some(subject) when the
\* page makes the function return, NoneVal when the loop goes on
header_subject(header) == IF header # "" THEN Some(header) ELSE NoneVal

subject_of_lines(lines) ==
    IF Len(lines) = 0 THEN NoneVal
    ELSE FirstMatch(
             subject_by_label(lines, 1),
             header_subject(extract_field(SUBJECT_PATTERNS,
                                          JoinLines(Take(lines, 18)))))

subject_of_page(page_text) == subject_of_lines(page_lines(page_text))

\* the subject of the first page that makes the function return
returned_or(subject, later) == IF subject # NoneVal THEN subject[1] ELSE later

RECURSIVE extract_subject_from(_, _)
extract_subject_from(pages_text, q) ==
    IF q > Min(3, Len(pages_text)) THEN ""
    ELSE returned_or(subject_of_page(pages_text[q]),
                     extract_subject_from(pages_text, q + 1))

extract_subject(pages_text) == extract_subject_from(pages_text, 1)

---------------------------------------------------------------------------
(* looks_like_offer                                                        *)

\* a plausible slip: the older, lenient rule (any one field is enough)
looks_like_offer_any(firm, subject, amount) ==
    LET found_fields ==
            (IF firm # "" /\ Len(firm) > 2 THEN 1 ELSE 0)
          + (IF subject # "" /\ Len(subject) > 2 THEN 1 ELSE 0)
          + (IF amount # NoneVal THEN 1 ELSE 0)
    IN  found_fields >= 1

looks_like_offer(firm, subject, amount) ==
    LET found_fields ==
            (IF firm # "" /\ Len(firm) > 2 THEN 1 ELSE 0)
          + (IF subject # "" /\ Len(subject) > 2 THEN 1 ELSE 0)
          + (IF amount # NoneVal THEN 1 ELSE 0)
    IN  found_fields >= 2

---------------------------------------------------------------------------
(* Reading a PDF, and parse_offer.                                         *)
(* A file is [readable, pages]: PdfReader(path) raises on a file that is   *)
(* not readable; a page is Some(text) when page.extract_text() returns     *)
(* text and NoneVal when it raises or returns None.                        *)
(* "^" stands for a lone surrogate, "?" for U+FFFD.                        *)

\* value.encode("utf-8", errors="surrogatepass").decode("utf-8",
\* errors="replace"): the three bytes of a lone surrogate decode to three
\* replacement characters
sanitize_text(value) == Replace(value, "^", "???")

extract_page_text(page) ==
    IF page = NoneVal THEN "" ELSE sanitize_text(page[1])

\* load_pdf_reader returns None for an unreadable file
extract_pages_from_pdf(file) ==
    IF ~file.readable THEN <<>>
    ELSE [i \in 1..Len(file.pages) |-> extract_page_text(file.pages[i])]

OfferRecord(file_path, firm, subject, amount, currency) ==
    [file_path |-> file_path, firm |-> firm, subject |-> subject,
     amount |-> amount, currency |-> currency]

\* a plausible slip: the classifier's verdict is not applied
record_unfiltered(file_path, firm, subject, amount) ==
    Some(OfferRecord(file_path, firm, subject, amount[1], amount[2]))

\* "if not looks_like_offer(firm, subject, amount): return None", else the
\* record of the extracted values
record_of(file_path, firm, subject, amount) ==
    IF ~looks_like_offer(firm, subject, amount[1]) THEN NoneVal
    ELSE Some(OfferRecord(file_path, firm, subject, amount[1], amount[2]))

\* parse_offer once the pages are read
parse_pages(file_path, pages_text) ==
    record_of(file_path, extract_firm(pages_text), extract_subject(pages_text),
              extract_amount_from_pages(pages_text))

parse_offer(file_path, file) ==
    parse_pages(file_path, extract_pages_from_pdf(file))

---------------------------------------------------------------------------
(* The amount normalizer as a state machine: an input is drawn, then the   *)
(* function is applied to it.                                              *)

NoFlow ==
    parsed_offers = <<>>

NoScan ==
    /\ scan_root = ""
    /\ scan_fs = [dirs |-> {}, files |-> {}]
    /\ scan_out = <<>>

NoDb ==
    /\ db_rows = {}
    /\ db_next_id = 1
    /\ db_clock = 0
    /\ db_calls = 0
    /\ db_args = <<>>
    /\ db_result = NoneVal

NoBatch ==
    /\ batch_paths = <<>>
    /\ batch_disk = <<>>
    /\ batch_index = 0
    /\ attempted = <<>>
    /\ records = <<>>
    /\ errors = <<>>

NoExtract ==
    /\ pages_in = <<>>
    /\ firm_out = ""
    /\ subject_out = ""
    /\ amount_out = <<NoneVal, NoneVal>>

NoFirmName ==
    /\ name_in = ""
    /\ name_out = ""
    /\ name_out2 = ""

NoClassifier ==
    /\ firm_in = ""
    /\ subject_in = ""
    /\ amount_in = NoneVal
    /\ offer_out = FALSE

NoParse ==
    /\ path = ""
    /\ disk = [readable |-> FALSE, pages |-> <<>>]
    /\ record = NoneVal

NoNormalizer ==
    /\ raw_in = ""
    /\ cur_in = NoneVal
    /\ amt_out = <<NoneVal, NoneVal>>
    /\ cur_out = NoneVal
    /\ cur_out2 = NoneVal

InitAmount ==
    /\ pc = "ready"
    /\ raw_in \in RawAmounts
    /\ cur_in \in ParseCurrencies
    /\ amt_out = <<NoneVal, NoneVal>>
    /\ cur_out = NoneVal
    /\ cur_out2 = NoneVal
    /\ NoClassifier
    /\ NoParse
    /\ NoFirmName
    /\ NoExtract
    /\ NoBatch
    /\ NoDb
    /\ NoScan
    /\ NoFlow

ParseAmount ==
    /\ pc = "ready"
    /\ amt_out' = parse_amount(raw_in, cur_in)
    /\ pc' = "parse_amount"
    /\ UNCHANGED <<raw_in, cur_in, cur_out, cur_out2, class_vars, parse_vars, name_vars, extract_vars, batch_vars, db_vars, scan_vars, flow_vars>>

NextAmount == ParseAmount

SpecAmount == InitAmount /\ [][NextAmount]_vars

(* The currency normalizer: applied to an input, then to its own result.   *)

InitCurrency ==
    /\ pc = "ready"
    /\ raw_in = ""
    /\ cur_in \in Currencies
    /\ amt_out = <<NoneVal, NoneVal>>
    /\ cur_out = NoneVal
    /\ cur_out2 = NoneVal
    /\ NoClassifier
    /\ NoParse
    /\ NoFirmName
    /\ NoExtract
    /\ NoBatch
    /\ NoDb
    /\ NoScan
    /\ NoFlow

NormalizeCurrency ==
    /\ pc = "ready"
    /\ cur_out' = normalize_currency(cur_in)
    /\ pc' = "normalize_currency"
    /\ UNCHANGED <<raw_in, cur_in, amt_out, cur_out2, class_vars, parse_vars, name_vars, extract_vars, batch_vars, db_vars, scan_vars, flow_vars>>

NormalizeCurrencyAgain ==
    /\ pc = "normalize_currency"
    /\ cur_out2' = normalize_currency(cur_out)
    /\ pc' = "normalize_currency_twice"
    /\ UNCHANGED <<raw_in, cur_in, amt_out, cur_out, class_vars, parse_vars, name_vars, extract_vars, batch_vars, db_vars, scan_vars, flow_vars>>

NextCurrency == NormalizeCurrency \/ NormalizeCurrencyAgain

SpecCurrency == InitCurrency /\ [][NextCurrency]_vars

(* The classifier.                                                         *)

FieldStrings == StringsUpTo({"a", " "}, MaxFieldLen)

ClassifierAmounts ==
    {NoneVal, Some([m |-> 0, e |-> 0]), Some([m |-> 123456, e |-> 2])}

InitClassifier ==
    /\ pc = "ready"
    /\ NoNormalizer
    /\ firm_in \in FieldStrings
    /\ subject_in \in FieldStrings
    /\ amount_in \in ClassifierAmounts
    /\ offer_out = FALSE
    /\ NoParse
    /\ NoFirmName
    /\ NoExtract
    /\ NoBatch
    /\ NoDb
    /\ NoScan
    /\ NoFlow

LooksLikeOffer ==
    /\ pc = "ready"
    /\ offer_out' = looks_like_offer(firm_in, subject_in, amount_in)
    /\ pc' = "looks_like_offer"
    /\ UNCHANGED <<norm_vars, firm_in, subject_in, amount_in, parse_vars, name_vars, extract_vars, batch_vars, db_vars, scan_vars, flow_vars>>

NextClassifier == LooksLikeOffer

SpecClassifier == InitClassifier /\ [][NextClassifier]_vars

(* The firm name normalizer: applied to a name, then to its own result.    *)

NameAlphabet == {"l", "T", "d", "."}

\* names with and without a legal-entity abbreviation, canonical or not
NameExamples ==
    {"Acme Ltd.", "acme ltd", "ACME LTD. XTI.", "Acme A.X.", "acme a.x",
     "PAK GIDA WRETIM VE PAZARLAMA A.X", "Acme Inc.", "acme inc",
     "Acme GmbH", "ACME GMBH", "Acme Corp", " acme ", "ab", "a"}

FirmNames == StringsUpTo(NameAlphabet, MaxNameLen) \cup NameExamples

InitFirmName ==
    /\ pc = "ready"
    /\ NoNormalizer
    /\ NoClassifier
    /\ NoParse
    /\ name_in \in FirmNames
    /\ name_out = ""
    /\ name_out2 = ""
    /\ NoExtract
    /\ NoBatch
    /\ NoDb
    /\ NoScan
    /\ NoFlow

NormalizeFirmName ==
    /\ pc = "ready"
    /\ name_out' = normalize_firm_name(name_in)
    /\ pc' = "normalize_firm_name"
    /\ UNCHANGED <<norm_vars, class_vars, parse_vars, name_in, name_out2, extract_vars, batch_vars, db_vars, scan_vars, flow_vars>>

NormalizeFirmNameAgain ==
    /\ pc = "normalize_firm_name"
    /\ name_out2' = normalize_firm_name(name_out)
    /\ pc' = "normalize_firm_name_twice"
    /\ UNCHANGED <<norm_vars, class_vars, parse_vars, name_in, name_out, extract_vars, batch_vars, db_vars, scan_vars, flow_vars>>

NextFirmName == NormalizeFirmName \/ NormalizeFirmNameAgain

SpecFirmName == InitFirmName /\ [][NextFirmName]_vars

(* The field extractors: each is applied to the pages of a document.       *)

\* page texts with a label, a header-block candidate, a salutation, trailing
\* noise, a short value, and amounts with and without a keyword
ExtractTexts ==
    {"",
     "Konu: ab",
     "Konu: Soya Yagi   Teklif No: 5",
     "Dear Acme Corp Your Reference",
     "Firma: Acme Corp   Your Reference: 123",
     "Acme Corp.",
     "Firma: Beta Gida",
     "1.500 $",
     "Toplam Tutar: 1.234,56 EUR",
     "Toplam: 12 EUR\n27.560 USD"}

Documents == SeqsUpTo(ExtractTexts, MaxPages)

MaxTailPages == 1

\* documents of more than three pages: three pages of which some are empty,
\* then pages that hold another firm and subject, or the only amount
HeadTexts == {"", "Firma: Beta Gida\nKonu: Soya Yagi", "Toplam: 12 EUR"}
TailTexts == {"Firma: Acme Gida\nKonu: Zeytin Yagi", "Toplam Tutar: 1.234,56 EUR"}

LongDocuments ==
    {head \o tail : head \in [1..3 -> HeadTexts],
                    tail \in SeqsUpTo(TailTexts, MaxTailPages) \ {<<>>}}

InitExtract ==
    /\ pc = "ready"
    /\ NoNormalizer
    /\ NoClassifier
    /\ NoParse
    /\ NoFirmName
    /\ pages_in \in Documents \cup LongDocuments
    /\ firm_out = ""
    /\ subject_out = ""
    /\ amount_out = <<NoneVal, NoneVal>>
    /\ NoBatch
    /\ NoDb
    /\ NoScan
    /\ NoFlow

ExtractFirm ==
    /\ pc = "ready"
    /\ firm_out' = extract_firm(pages_in)
    /\ pc' = "extract_firm"
    /\ UNCHANGED <<norm_vars, class_vars, parse_vars, name_vars,
                   pages_in, subject_out, amount_out, batch_vars, db_vars, scan_vars, flow_vars>>

ExtractSubject ==
    /\ pc = "ready"
    /\ subject_out' = extract_subject(pages_in)
    /\ pc' = "extract_subject"
    /\ UNCHANGED <<norm_vars, class_vars, parse_vars, name_vars,
                   pages_in, firm_out, amount_out, batch_vars, db_vars, scan_vars, flow_vars>>

ExtractAmount ==
    /\ pc = "ready"
    /\ amount_out' = extract_amount_from_pages(pages_in)
    /\ pc' = "extract_amount_from_pages"
    /\ UNCHANGED <<norm_vars, class_vars, parse_vars, name_vars,
                   pages_in, firm_out, subject_out, batch_vars, db_vars, scan_vars, flow_vars>>

NextExtract == ExtractFirm \/ ExtractSubject \/ ExtractAmount

SpecExtract == InitExtract /\ [][NextExtract]_vars

(* The parse orchestrator: a file is on disk, then parse_offer reads it.   *)

\* the page texts the enumerated documents are made of
PageTexts ==
    {"",
     "Firma Adi: Acme Ltd.\nKonu: Soya Yagi Teklifi\nToplam Tutar: 1.234,56 EUR",
     "Firma: Acme Corp   Your Reference: 123",
     "Sayin Ali Bey\nGrand Total: 1.500 $",
     "Dear Acme GmbH\n0,00 @",
     "ab\nToplam (KDV): 12 #\n1,925,000 tl",
     "Xirket ^\r\nSum 27.560 Usd"}

Pages == {NoneVal} \cup {Some(t) : t \in PageTexts}

\* n times the character c
Repeated(c, n) == Concat([i \in 1..n |-> c], 1, n)

\* one-page documents whose subject line is longer than the limit, with the
\* label of the label scan ("Konu:") and with one only the header-block
\* patterns know ("Subject:")
LongPages ==
    {Some(label \o ": " \o Repeated("a", SubjectLimit + 1)
              \o "\nToplam Tutar: 1.234,56 EUR") : label \in {"Konu", "Subject"}}

Files ==
    {[readable |-> FALSE, pages |-> <<>>]}
        \cup {[readable |-> TRUE, pages |-> q] : q \in SeqsUpTo(Pages, MaxPages)}
        \cup {[readable |-> TRUE, pages |-> <<p>>] : p \in LongPages}

Paths == {"a.pdf", "teklif/b.pdf"}

Init ==
    /\ pc = "ready"
    /\ NoNormalizer
    /\ NoClassifier
    /\ path \in Paths
    /\ disk \in Files
    /\ record = NoneVal
    /\ NoFirmName
    /\ NoExtract
    /\ NoBatch
    /\ NoDb
    /\ NoScan
    /\ NoFlow

ParseOffer ==
    /\ pc = "ready"
    /\ record' = parse_offer(path, disk)
    /\ pc' = "parse_offer"
    /\ UNCHANGED <<norm_vars, class_vars, path, disk, name_vars, extract_vars, batch_vars, db_vars, scan_vars, flow_vars>>

Next == ParseOffer

Spec == Init /\ [][Next]_vars

---------------------------------------------------------------------------
(* The batch: process_files walks a list of paths, one pass of its loop    *)
(* per step, and returns the records and the errors.                       *)

\* os.path.basename
basename(file_path) ==
    SubSeq(file_path, RFind(file_path, "/") + 1, Len(file_path))

\* the exception that escapes parse_offer for a file, if any: the reader was
\* built, and reading its page list raises (extract_pages_from_pdf iterates
\* reader.pages outside any try)
raised(file) ==
    IF "error" \in DOMAIN file THEN Some(file.error) ELSE NoneVal

\* "if record is not None: records.append(record)"
appended(list, parsed) ==
    IF parsed = NoneVal THEN list ELSE Append(list, parsed[1])

\* a plausible slip: the try around the whole loop, an exception losing the
\* records collected so far
records_after_lost(list, file_path, file) ==
    IF raised(file) # NoneVal THEN <<>>
    ELSE appended(list, parse_offer(file_path, file))

\* the records list after one pass of the loop body
records_after(list, file_path, file) ==
    IF raised(file) # NoneVal THEN list
    ELSE appended(list, parse_offer(file_path, file))

\* errors.append(f"{os.path.basename(path)}: {error_text}")
error_entry(file_path, exc) ==
    basename(file_path) \o ": " \o sanitize_text(exc)

\* the errors list after one pass of the loop body
errors_after(list, file_path, file) ==
    IF raised(file) = NoneVal THEN list
    ELSE Append(list, error_entry(file_path, raised(file)[1]))

MaxBatch == 3

\* the files of a batch: one that cannot be opened, one whose page list
\* cannot be read, one whose only page has no text or throws, an offer
BatchFiles ==
    {[readable |-> FALSE, pages |-> <<>>],
     [readable |-> TRUE, pages |-> <<>>,
      error |-> "File has not been decrypted ^"],
     [readable |-> TRUE, pages |-> <<NoneVal>>],
     [readable |-> TRUE, pages |-> <<Some("Konu: ab")>>],
     [readable |-> TRUE,
      pages |-> <<Some("Firma: Beta Gida"), Some("Toplam Tutar: 1.234,56 EUR")>>]}

InitBatch ==
    /\ pc = "batch"
    /\ NoNormalizer
    /\ NoClassifier
    /\ NoParse
    /\ NoFirmName
    /\ NoExtract
    /\ batch_paths \in SeqsUpTo(Paths, MaxBatch)
    /\ batch_disk \in [Paths -> BatchFiles]
    /\ batch_index = 0
    /\ attempted = <<>>
    /\ records = <<>>
    /\ errors = <<>>
    /\ NoDb
    /\ NoScan
    /\ NoFlow

\* one pass of "for index, path in enumerate(paths, start=1)"
ProcessFile ==
    /\ pc = "batch"
    /\ batch_index < Len(batch_paths)
    /\ batch_index' = batch_index + 1
    /\ attempted' = Append(attempted, batch_paths[batch_index + 1])
    /\ records' = records_after(records, batch_paths[batch_index + 1],
                                batch_disk[batch_paths[batch_index + 1]])
    /\ errors' = errors_after(errors, batch_paths[batch_index + 1],
                              batch_disk[batch_paths[batch_index + 1]])
    /\ UNCHANGED <<pc, batch_paths, batch_disk>>
    /\ UNCHANGED <<norm_vars, class_vars, parse_vars, name_vars, extract_vars, db_vars, scan_vars, flow_vars>>

\* "return records, errors"
ProcessFilesReturn ==
    /\ pc = "batch"
    /\ batch_index = Len(batch_paths)
    /\ pc' = "process_files"
    /\ UNCHANGED batch_vars
    /\ UNCHANGED <<norm_vars, class_vars, parse_vars, name_vars, extract_vars, db_vars, scan_vars, flow_vars>>

NextBatch == ProcessFile \/ ProcessFilesReturn

SpecBatch == InitBatch /\ [][NextBatch]_vars

---------------------------------------------------------------------------
(* The table: teklifler(id INTEGER PRIMARY KEY AUTOINCREMENT, file_path    *)
(* TEXT UNIQUE, firm, subject, amount, currency, extracted_at), created by *)
(* init_db when the program starts, and the calls that write it.           *)

\* the row an INSERT statement of save_offer / save_offers_batch builds
row_of(id, rec, now) ==
    [id |-> id, file_path |-> rec.file_path, firm |-> rec.firm,
     subject |-> rec.subject, amount |-> rec.amount,
     currency |-> rec.currency, extracted_at |-> now]

\* a plausible slip: a plain INSERT into a table without the UNIQUE
\* constraint
insert_plain(rows, id, rec, now) ==
    rows \cup {row_of(id, rec, now)}

\* INSERT OR REPLACE: the row that holds the same file_path (UNIQUE) is
\* deleted, then the new row is inserted
insert_or_replace(rows, id, rec, now) ==
    {r \in rows : r.file_path # rec.file_path} \cup {row_of(id, rec, now)}

\* the INSERT OR REPLACE statements of save_offers_batch, record k onwards
RECURSIVE insert_all(_, _, _, _, _)
insert_all(rows, id, recs, k, now) ==
    IF k > Len(recs) THEN rows
    ELSE insert_all(insert_or_replace(rows, id, recs[k], now), id + 1,
                    recs, k + 1, now)

\* "normalize_firm_name(firm) if firm else firm"
standard_firm(firm) ==
    IF firm = "" THEN firm ELSE normalize_firm_name(firm)

\* the row standardize_existing_records leaves in the place of a row
standardized(r) ==
    [r EXCEPT !.firm = standard_firm(r.firm),
              !.currency = normalize_currency(r.currency)]

MaxCalls == 3
MaxSaved == 2
MaxClock == 1

\* the records the callers save
SavedRecords ==
    {OfferRecord(p, v[1], v[2], v[3], v[4]) :
        p \in Paths,
        v \in {<<"Acme Ltd.", "Soya Yagi", Some(Dec(123456, 2)), Some("EUR")>>,
               <<"beta gida", "", NoneVal, NoneVal>>}}

InitDb ==
    /\ pc = "db"
    /\ NoNormalizer
    /\ NoClassifier
    /\ NoParse
    /\ NoFirmName
    /\ NoExtract
    /\ NoBatch
    /\ db_rows = {}
    /\ db_next_id = 1
    /\ db_clock = 0
    /\ db_calls = 0
    /\ db_args = <<>>
    /\ db_result = NoneVal
    /\ NoScan
    /\ NoFlow

OtherThanDb ==
    <<norm_vars, class_vars, parse_vars, name_vars, extract_vars, batch_vars,
      scan_vars, flow_vars>>

\* a second passes
Tick ==
    /\ db_clock < MaxClock
    /\ db_clock' = db_clock + 1
    /\ UNCHANGED <<pc, db_rows, db_next_id, db_calls, db_args, db_result>>
    /\ UNCHANGED OtherThanDb

SaveOffer ==
    /\ db_calls < MaxCalls
    /\ \E rec \in SavedRecords :
          /\ db_rows' = insert_or_replace(db_rows, db_next_id, rec, db_clock)
          /\ db_args' = <<rec>>
    /\ db_next_id' = db_next_id + 1
    /\ db_calls' = db_calls + 1
    /\ db_result' = NoneVal
    /\ pc' = "save_offer"
    /\ UNCHANGED db_clock
    /\ UNCHANGED OtherThanDb

SaveOffersBatch ==
    /\ db_calls < MaxCalls
    /\ \E recs \in SeqsUpTo(SavedRecords, MaxSaved) :
          /\ db_rows' = insert_all(db_rows, db_next_id, recs, 1, db_clock)
          /\ db_next_id' = db_next_id + Len(recs)
          /\ db_args' = recs
          /\ db_result' = Some(Len(recs))
    /\ db_calls' = db_calls + 1
    /\ pc' = "save_offers_batch"
    /\ UNCHANGED db_clock
    /\ UNCHANGED OtherThanDb

\* DELETE FROM teklifler
ResetDb ==
    /\ db_calls < MaxCalls
    /\ db_rows' = {}
    /\ db_calls' = db_calls + 1
    /\ db_args' = <<>>
    /\ db_result' = NoneVal
    /\ pc' = "reset_db"
    /\ UNCHANGED <<db_next_id, db_clock>>
    /\ UNCHANGED OtherThanDb

StandardizeExistingRecords ==
    /\ db_calls < MaxCalls
    /\ db_rows' = {standardized(r) : r \in db_rows}
    /\ db_result' = Some(Cardinality({r \in db_rows : standardized(r) # r}))
    /\ db_calls' = db_calls + 1
    /\ db_args' = <<>>
    /\ pc' = "standardize_existing_records"
    /\ UNCHANGED <<db_next_id, db_clock>>
    /\ UNCHANGED OtherThanDb

NextDb ==
    \/ Tick
    \/ SaveOffer
    \/ SaveOffersBatch
    \/ ResetDb
    \/ StandardizeExistingRecords

SpecDb == InitDb /\ [][NextDb]_vars

---------------------------------------------------------------------------
(* The folder scan.  A path under root_folder is the sequence of its names *)
(* (<<>> is root_folder itself); the file system is the set of the paths   *)
(* that are directories and the set of those that are files.  The paths    *)
(* scan_company_offer_pdfs returns are kept as such sequences: the         *)
(* os.path.join with root_folder is left off.                              *)

\* s.lower()
Lower(s) == Concat([i \in 1..Len(s) |-> LowerChar(CharAt(s, i))], 1, Len(s))

\* re.compile(r"teklif", re.IGNORECASE)
OFFER_FOLDER_PATTERN == Lit("teklif")

is_offer_folder(name) == Search(OFFER_FOLDER_PATTERN, name) # NoneVal

\* file.lower().endswith(".pdf")
is_pdf(file) ==
    Len(file) >= 4 /\ Lower(SubSeq(file, Len(file) - 3, Len(file))) = ".pdf"

\* the names a directory can hold, in the order os.listdir gives them
NameOrder == <<"a.pdf", "B.PDF", "c.txt", "Firma", "Teklifler", "y TEKLIF">>

\* os.listdir(d)
listdir(fs, d) ==
    SelectSeq(NameOrder, LAMBDA n : Append(d, n) \in fs.dirs \cup fs.files)

\* the files of one directory that walk_pdf_files appends
pdfs_of(fs, d, entries) ==
    [i \in 1..Len(entries) |-> Append(d, entries[i])]

\* os.walk(folder), top-down: the files of a directory, then its
\* subdirectories, entry k onwards
RECURSIVE walk_pdf_files(_, _)
RECURSIVE walk_subdirs(_, _, _, _)
walk_subdirs(fs, d, entries, k) ==
    IF k > Len(entries) THEN <<>>
    ELSE IF Append(d, entries[k]) \in fs.dirs
         THEN walk_pdf_files(fs, Append(d, entries[k]))
                  \o walk_subdirs(fs, d, entries, k + 1)
    ELSE walk_subdirs(fs, d, entries, k + 1)

walk_pdf_files(fs, folder) ==
    IF folder \notin fs.dirs THEN <<>>
    ELSE pdfs_of(fs, folder,
                 SelectSeq(listdir(fs, folder),
                           LAMBDA n : Append(folder, n) \in fs.files /\ is_pdf(n)))
             \o walk_subdirs(fs, folder, listdir(fs, folder), 1)

\* find_teklif_folders(base_path, current_depth, max_depth=3)
max_depth == 3

RECURSIVE find_teklif_folders(_, _, _)
RECURSIVE find_in_entries(_, _, _, _, _)

\* one pass of "for entry in entries"
found_at(fs, entry_path, entry, current_depth) ==
    IF entry_path \notin fs.dirs THEN <<>>
    ELSE (IF is_offer_folder(entry) THEN <<entry_path>> ELSE <<>>)
             \o (IF current_depth < max_depth
                 THEN find_teklif_folders(fs, entry_path, current_depth + 1)
                 ELSE <<>>)

find_in_entries(fs, base_path, entries, k, current_depth) ==
    IF k > Len(entries) THEN <<>>
    ELSE found_at(fs, Append(base_path, entries[k]), entries[k], current_depth)
             \o find_in_entries(fs, base_path, entries, k + 1, current_depth)

find_teklif_folders(fs, base_path, current_depth) ==
    IF current_depth > max_depth THEN <<>>
    ELSE find_in_entries(fs, base_path, listdir(fs, base_path), 1,
                         current_depth)

\* the folders whose PDFs are collected
teklif_folders(fs, root_folder) ==
    IF is_offer_folder(basename(root_folder)) THEN << <<>> >>
    ELSE find_teklif_folders(fs, <<>>, 1)

\* "for teklif_folder in teklif_folders: pdf_files.extend(...)"
RECURSIVE walk_all(_, _, _)
walk_all(fs, folders, k) ==
    IF k > Len(folders) THEN <<>>
    ELSE walk_pdf_files(fs, folders[k]) \o walk_all(fs, folders, k + 1)

scan_company_offer_pdfs(fs, root_folder) ==
    IF <<>> \notin fs.dirs THEN <<>>
    ELSE walk_all(fs, teklif_folders(fs, root_folder), 1)

MaxDepth == 5
MaxPdfDirs == 2

\* the directories of a chain of nested folders
Prefixes(c) == {SubSeq(c, 1, k) : k \in 0..Len(c)}

\* a second folder next to the chain, with a PDF and another file
Beside ==
    {[dirs |-> {}, files |-> {}],
     [dirs |-> {<<"y TEKLIF">>},
      files |-> {<<"y TEKLIF", "B.PDF">>, <<"y TEKLIF", "c.txt">>}]}

\* the trees with one chain: a PDF in some of its folders, and possibly the
\* folder beside
TreesOf(c) ==
    {[dirs |-> Prefixes(c) \cup b.dirs,
      files |-> {Append(d, "a.pdf") : d \in F} \cup b.files] :
        F \in {S \in SUBSET Prefixes(c) : Cardinality(S) <= MaxPdfDirs},
        b \in Beside}

\* the file systems: a root that is no directory, or a tree
Trees ==
    {[dirs |-> {}, files |-> {}]}
        \cup UNION {TreesOf(c) : c \in SeqsUpTo({"Firma", "Teklifler"}, MaxDepth)}

\* root_folder as the user gives it
Roots == {"E:/DELTA", "E:/Teklifler", "E:/Teklifler/"}

InitScan ==
    /\ pc = "scan"
    /\ NoNormalizer
    /\ NoClassifier
    /\ NoParse
    /\ NoFirmName
    /\ NoExtract
    /\ NoBatch
    /\ NoDb
    /\ scan_root \in Roots
    /\ scan_fs \in Trees
    /\ scan_out = <<>>
    /\ NoFlow

ScanCompanyOfferPdfs ==
    /\ pc = "scan"
    /\ scan_out' = scan_company_offer_pdfs(scan_fs, scan_root)
    /\ pc' = "scan_company_offer_pdfs"
    /\ UNCHANGED <<scan_root, scan_fs>>
    /\ UNCHANGED <<norm_vars, class_vars, parse_vars, name_vars, extract_vars,
                   batch_vars, db_vars, flow_vars>>

NextScan == ScanCompanyOfferPdfs

SpecScan == InitScan /\ [][NextScan]_vars

---------------------------------------------------------------------------
(* The folder-scan flow of the home page: the button that scans a folder   *)
(* and parses the PDFs that are not stored yet, the button that saves the  *)
(* selected offers, and the button that resets the database.               *)

\* os.path.join(a, b), for a non-empty a and a relative b
join(a, b) ==
    IF CharAt(a, Len(a)) = "/" THEN a \o b ELSE a \o "/" \o b

\* the path string the scan returns for the names below root_folder
RECURSIVE path_of(_, _)
path_of(root_folder, names) ==
    IF names = <<>> THEN root_folder
    ELSE join(path_of(root_folder, SubSeq(names, 1, Len(names) - 1)),
              names[Len(names)])

\* pdf_files = scan_company_offer_pdfs(folder), as path strings
pdf_files_of(root_folder, found) ==
    [i \in 1..Len(found) |-> path_of(root_folder, found[i])]

\* get_existing_file_paths()
get_existing_file_paths(rows) == {r.file_path : r \in rows}

\* a plausible slip: every found PDF is parsed, stored or not
new_pdf_files_unfiltered(pdf_files, existing_paths) == pdf_files

\* [path for path in pdf_files if path not in existing_paths]
new_pdf_files(pdf_files, existing_paths) ==
    SelectSeq(pdf_files, LAMBDA path_ : path_ \notin existing_paths)

\* process_files(paths): the records and the errors after path k onwards
RECURSIVE records_from(_, _, _, _)
records_from(list, paths, files, k) ==
    IF k > Len(paths) THEN list
    ELSE records_from(records_after(list, paths[k], files[paths[k]]),
                      paths, files, k + 1)

RECURSIVE errors_from(_, _, _, _)
errors_from(list, paths, files, k) ==
    IF k > Len(paths) THEN list
    ELSE errors_from(errors_after(list, paths[k], files[paths[k]]),
                     paths, files, k + 1)

\* [parsed_offers[i] for i in selected_indices]
selected_offers(offers, selected) ==
    [i \in 1..Len(selected) |-> offers[selected[i]]]

\* the values selected_indices can have when the save button is enabled:
\* some of the n indices, each once, in the order the ticks left them
Selections(n) ==
    {q \in SeqsUpTo(1..n, n) :
        q # <<>> /\ \A i, j \in 1..Len(q) : q[i] = q[j] => i = j}

MaxFlowDepth == 2
MaxFlowSteps == 3

\* what a PDF of the scanned folder holds: an offer, or an empty page
FlowFiles ==
    {[readable |-> TRUE, pages |-> <<Some("Firma: Beta\nKonu: Yag")>>],
     [readable |-> TRUE, pages |-> <<Some("")>>]}

\* the trees of the flow: a chain of folders, a PDF in some of them
FlowTrees ==
    {t \in UNION {TreesOf(c) :
                     c \in SeqsUpTo({"Firma", "Teklifler"}, MaxFlowDepth)} :
        <<"y TEKLIF">> \notin t.dirs}

FlowRoots == {"E:/DELTA", "E:/Teklifler"}

\* the PDFs of a tree, as path strings
PdfPaths(root_folder, fs) ==
    {path_of(root_folder, f) : f \in {g \in fs.files : is_pdf(g[Len(g)])}}

InitFlow ==
    /\ pc = "home"
    /\ NoNormalizer
    /\ NoClassifier
    /\ NoParse
    /\ NoFirmName
    /\ NoExtract
    /\ NoDb
    /\ scan_root \in FlowRoots
    /\ scan_fs \in FlowTrees
    /\ scan_out = <<>>
    /\ batch_paths = <<>>
    /\ batch_disk \in [PdfPaths(scan_root, scan_fs) -> FlowFiles]
    /\ batch_index = 0
    /\ attempted = <<>>
    /\ records = <<>>
    /\ errors = <<>>
    /\ parsed_offers = <<>>

OtherThanFlow ==
    <<norm_vars, class_vars, parse_vars, name_vars, extract_vars>>

\* "st.session_state.parsed_offers = records", after process_files
parsed(recs) ==
    /\ records' = recs
    /\ parsed_offers' = recs

\* the handler once the paths to parse are known: nothing to parse
\* ("return"), or process_files and the session state
scanned(new_paths) ==
    /\ batch_paths' = new_paths
    /\ attempted' = new_paths
    /\ batch_index' = Len(new_paths)
    /\ errors' = errors_from(<<>>, new_paths, batch_disk, 1)
    /\ IF new_paths = <<>>
       THEN records' = <<>> /\ UNCHANGED parsed_offers
       ELSE parsed(records_from(<<>>, new_paths, batch_disk, 1))

\* the handler once the folder is scanned
found_pdfs(found) ==
    /\ scan_out' = found
    /\ scanned(new_pdf_files(pdf_files_of(scan_root, found),
                             get_existing_file_paths(db_rows)))

\* the button "Klasoru Tara"
ScanFolder ==
    /\ db_calls < MaxFlowSteps
    /\ found_pdfs(scan_company_offer_pdfs(scan_fs, scan_root))
    /\ db_calls' = db_calls + 1
    /\ pc' = "scan_folder"
    /\ UNCHANGED <<scan_root, scan_fs, batch_disk>>
    /\ UNCHANGED <<db_rows, db_next_id, db_clock, db_args, db_result>>
    /\ UNCHANGED OtherThanFlow

\* the button "Secili Teklifi DB'ye Ekle", with the offers the user ticked
SaveSelected ==
    /\ db_calls < MaxFlowSteps
    /\ parsed_offers # <<>>
    /\ \E selected \in Selections(Len(parsed_offers)) :
          /\ db_args' = selected_offers(parsed_offers, selected)
          /\ db_rows' = insert_all(db_rows, db_next_id, db_args', 1, db_clock)
          /\ db_next_id' = db_next_id + Len(db_args')
          /\ db_result' = Some(Len(db_args'))
    /\ parsed_offers' = <<>>
    /\ db_calls' = db_calls + 1
    /\ pc' = "save_selected"
    /\ UNCHANGED <<db_clock, scan_vars, batch_vars>>
    /\ UNCHANGED OtherThanFlow

\* the button "Veritabanini Sifirla"
ResetDatabase ==
    /\ db_calls < MaxFlowSteps
    /\ db_rows # {}
    /\ db_rows' = {}
    /\ db_args' = <<>>
    /\ db_result' = NoneVal
    /\ db_calls' = db_calls + 1
    /\ pc' = "reset_database"
    /\ UNCHANGED <<db_next_id, db_clock, scan_vars, batch_vars, flow_vars>>
    /\ UNCHANGED OtherThanFlow

NextFlow == ScanFolder \/ SaveSelected \/ ResetDatabase

SpecFlow == InitFlow /\ [][NextFlow]_vars

---------------------------------------------------------------------------
(* Reference operators used by the properties below.                       *)

\* s without the characters of the set D
Without(s, D) ==
    Concat([i \in 1..Len(s) |-> IF CharAt(s, i) \in D THEN "" ELSE CharAt(s, i)],
           1, Len(s))

\* how many characters of s lie in the set D
Count(s, D) == Cardinality({i \in 1..Len(s) : CharAt(s, i) \in D})

DigitChars == {"0", "1", "2", "3", "4", "5", "6", "7", "8", "9"}

\* the token as the separator rules see it, and its number of digits
Token(raw) == Without(raw, {" "})
NumDigits(raw) == Count(raw, DigitChars)

\* the decimal written as the digits ip, a point, the digits fp
Decimal(ip, fp) == Some(Dec(DigitsVal(ip \o fp), Len(fp)))

\* the position of the last separator of t, of either kind
LastSeparator(t) == MaxOf({i \in 1..Len(t) : CharAt(t, i) \in {",", "."}})

\* The value of a token holding both separators, decided by position alone:
\* the separator written last is the decimal one; every occurrence of the
\* other is dropped.  The token denotes a number when the decimal separator
\* occurs once and all else is digits.
RefBoth(t) ==
    LET p == LastSeparator(t)
        decimal == CharAt(t, p)
        other == IF decimal = "," THEN "." ELSE ","
        ip == Without(SubSeq(t, 1, p - 1), {other})
        fp == SubSeq(t, p + 1, Len(t))
    IN  IF AllDigits(ip) /\ AllDigits(fp) THEN Decimal(ip, fp) ELSE NoneVal

\* The value of a token holding only dots.
RefDotOnly(t) ==
    LET p == LastSeparator(t)
        ip == SubSeq(t, 1, p - 1)
        fp == SubSeq(t, p + 1, Len(t))
    IN  IF Len(fp) = 3
        THEN IF AllDigits(Without(t, {"."}))
             THEN Decimal(Without(t, {"."}), "") ELSE NoneVal
        ELSE IF AllDigits(ip) /\ AllDigits(fp) THEN Decimal(ip, fp) ELSE NoneVal

\* The value of a token holding only commas.
RefCommaOnly(t) ==
    LET p == LastSeparator(t)
        ip == SubSeq(t, 1, p - 1)
        fp == SubSeq(t, p + 1, Len(t))
    IN  IF Count(t, {","}) >= 2 THEN NoneVal
        ELSE IF AllDigits(ip) /\ AllDigits(fp) THEN Decimal(ip, fp) ELSE NoneVal

\* a canonical decimal string: digits, one '.', digits, nothing else
IsCanonicalDecimal(s) ==
    /\ Count(s, {"."}) = 1
    /\ Count(s, DigitChars) = Len(s) - 1
    /\ CharAt(s, 1) # "."
    /\ CharAt(s, Len(s)) # "."

ParsedAmount == pc = "parse_amount"

---------------------------------------------------------------------------
(* C1: looks_like_offer returns true exactly when at least 2 of the 3      *)
(* signals hold: firm non-empty and longer than 2, subject non-empty and   *)
(* longer than 2, amount not null.                                         *)
Signals ==
    {x \in {"firm", "subject", "amount"} :
        \/ x = "firm" /\ firm_in # "" /\ Len(firm_in) > 2
        \/ x = "subject" /\ subject_in # "" /\ Len(subject_in) > 2
        \/ x = "amount" /\ amount_in # NoneVal}

C1_TwoOfThree ==
    pc = "looks_like_offer" =>
        /\ offer_out = (Cardinality(Signals) >= 2)
        /\ (Cardinality(Signals) \in {0, 1} => offer_out = FALSE)
        /\ (Cardinality(Signals) \in {2, 3} => offer_out = TRUE)

\* exactly two signals (a present firm, an amount of 0.0) and acceptance
C1_Witness ==
    /\ pc = "looks_like_offer"
    /\ Signals = {"firm", "amount"}
    /\ subject_in = "aa"
    /\ offer_out = TRUE

\* the signals a returned record satisfies
RecordSignals(r) ==
    {x \in {"firm", "subject", "amount"} :
        \/ x = "firm" /\ r.firm # "" /\ Len(r.firm) > 2
        \/ x = "subject" /\ r.subject # "" /\ Len(r.subject) > 2
        \/ x = "amount" /\ r.amount # NoneVal}

\* parse_offer's result rec agrees with the extracted firm, subject and
\* amount = <<amount, currency>>
AgreesWith(rec, file_path, firm, subject, amount) ==
    /\ (rec = NoneVal) = ~looks_like_offer(firm, subject, amount[1])
    /\ rec # NoneVal =>
          /\ rec[1].file_path = file_path
          /\ rec[1].firm = firm
          /\ rec[1].subject = subject
          /\ rec[1].amount = amount[1]
          /\ rec[1].currency = amount[2]
          /\ Cardinality(RecordSignals(rec[1])) >= 2

AgreesWithPages(rec, file_path, pages_text) ==
    AgreesWith(rec, file_path, extract_firm(pages_text),
               extract_subject(pages_text),
               extract_amount_from_pages(pages_text))

(* C2: parse_offer returns None exactly when looks_like_offer rejects the  *)
(* extracted firm, subject and amount; otherwise it returns one record     *)
(* whose file_path is the input path and whose firm, subject, amount and   *)
(* currency are the extractors' values, so that every returned record has  *)
(* at least two of the three signals.                                      *)
C2_ParseOffer ==
    pc = "parse_offer" =>
        AgreesWithPages(record, path, extract_pages_from_pdf(disk))

\* a record accepted on exactly two signals (firm and subject, no amount)
C2_Witness ==
    /\ pc = "parse_offer"
    /\ record # NoneVal
    /\ RecordSignals(record[1]) = {"firm", "subject"}
    /\ record[1].file_path = path

(* C3: every record returned by parse_offer has amount and currency set    *)
(* together or both null: amount is null if and only if currency is null.  *)
C3_AmountWithCurrency ==
    pc = "parse_offer" /\ record # NoneVal =>
        (record[1].amount = NoneVal) = (record[1].currency = NoneVal)

\* a record with an amount whose currency token is not in an alias table
\* ("$" passes through upper-cased)
C3_Witness ==
    /\ pc = "parse_offer"
    /\ record # NoneVal
    /\ record[1].amount # NoneVal
    /\ record[1].currency = Some("$")

(* C12: the subject of every record parse_offer returns has at most 200    *)
(* characters, whichever strategy of extract_subject produced it.          *)
C12_SubjectAtMost200 ==
    pc = "parse_offer" /\ record # NoneVal =>
        Len(record[1].subject) <= SubjectLimit

(* C13: no field extractor returns a non-empty value of length <= 2: the   *)
(* result of extract_firm, and of extract_subject, is "" or longer than 2. *)
C13_NoShortCandidate ==
    /\ pc = "extract_firm" => firm_out = "" \/ Len(firm_out) > 2
    /\ pc = "extract_subject" => subject_out = "" \/ Len(subject_out) > 2

(* C14: every value extract_firm or extract_subject returns, by any        *)
(* strategy, is cut at the first stopword that follows whitespace, so it   *)
(* contains no such stopword; "Firma: Acme Corp   Your Reference: 123"     *)
(* yields "Acme Corp".                                                     *)
C14_NoTrailingNoise ==
    /\ pc = "extract_firm" =>
          /\ Search(STOPWORDS, firm_out) = NoneVal
          /\ (pages_in = <<"Firma: Acme Corp   Your Reference: 123">>
                  => firm_out = "Acme Corp")
    /\ pc = "extract_subject" => Search(STOPWORDS, subject_out) = NoneVal

\* the (pattern, page) combinations of a document, those whose first match
\* normalizes, and pattern-major order
Combos(pages_text) ==
    (1..Len(AMOUNT_PATTERNS)) \X (1..Len(pages_text))

Normalizing(pages_text) ==
    {c \in Combos(pages_text) :
        amount_of_match(AMOUNT_PATTERNS[c[1]], pages_text[c[2]])[1] # NoneVal}

PatternMajor(c, d) == c[1] < d[1] \/ (c[1] = d[1] /\ c[2] <= d[2])

(* C19: extract_amount_from_pages returns the normalized first match of    *)
(* the first (pattern, page) combination, in pattern-major order, whose    *)
(* first match normalizes; a match that does not normalize does not stop   *)
(* the search; (null, null) is returned only when no combination           *)
(* normalizes.                                                             *)
C19_PatternMajor ==
    pc = "extract_amount_from_pages" =>
        IF Normalizing(pages_in) = {} THEN amount_out = <<NoneVal, NoneVal>>
        ELSE \E c \in Normalizing(pages_in) :
                 /\ \A d \in Normalizing(pages_in) : PatternMajor(c, d)
                 /\ amount_out = amount_of_match(AMOUNT_PATTERNS[c[1]],
                                                 pages_in[c[2]])

\* a keyword match on the second page wins over a bare amount on the first
C19_Witness ==
    /\ pc = "extract_amount_from_pages"
    /\ pages_in = <<"1.500 $", "Toplam Tutar: 1.234,56 EUR">>
    /\ amount_out = <<Some([m |-> 123456, e |-> 2]), Some("EUR")>>

\* the values the label scan yields on the first 3 pages
LabelledFirms(pages_text) ==
    {firm_by_label(page_lines(pages_text[q]), 1) :
        q \in 1..Min(3, Len(pages_text))} \ {""}

(* C20: whenever a firm label with an acceptable value occurs in the first *)
(* 20 non-blank lines of one of the first 3 pages, extract_firm returns    *)
(* that labelled value, even if an earlier page offers a header-block or   *)
(* salutation candidate.                                                   *)
C20_LabelFirst ==
    pc = "extract_firm" /\ LabelledFirms(pages_in) # {} =>
        firm_out \in {normalize_firm_name(f) : f \in LabelledFirms(pages_in)}

\* what the first n paths of a batch must have left in records and in
\* errors, each path taken on its own
RECURSIVE AcceptedOf(_, _, _)
AcceptedOf(paths, files, n) ==
    IF n = 0 THEN <<>>
    ELSE IF raised(files[paths[n]]) # NoneVal
              \/ parse_offer(paths[n], files[paths[n]]) = NoneVal
         THEN AcceptedOf(paths, files, n - 1)
    ELSE Append(AcceptedOf(paths, files, n - 1),
                parse_offer(paths[n], files[paths[n]])[1])

RECURSIVE FailuresOf(_, _, _)
FailuresOf(paths, files, n) ==
    IF n = 0 THEN <<>>
    ELSE IF raised(files[paths[n]]) = NoneVal
         THEN FailuresOf(paths, files, n - 1)
    ELSE Append(FailuresOf(paths, files, n - 1),
                basename(paths[n]) \o ": "
                    \o sanitize_text(files[paths[n]].error))

(* C15: process_files attempts parse_offer on each path once, in list      *)
(* order; an exception while parsing a path adds one error for that path   *)
(* and leaves the other paths' results as they are; records are the        *)
(* accepted records in input order; len(records) + len(errors) is at most  *)
(* len(paths).                                                             *)
C15_FailureIsolation ==
    pc \in {"batch", "process_files"} =>
        /\ attempted = SubSeq(batch_paths, 1, batch_index)
        /\ records = AcceptedOf(batch_paths, batch_disk, batch_index)
        /\ errors = FailuresOf(batch_paths, batch_disk, batch_index)
        /\ Len(records) + Len(errors) <= Len(batch_paths)
        /\ pc = "process_files" => batch_index = Len(batch_paths)

\* a batch that has returned: its first file raised, its second is an offer
C15_Witness ==
    /\ pc = "process_files"
    /\ Len(batch_paths) >= 2
    /\ raised(batch_disk[batch_paths[1]]) # NoneVal
    /\ errors = <<basename(batch_paths[1]) \o ": File has not been decrypted ???">>
    /\ Len(records) = 1
    /\ records[1].file_path = batch_paths[2]

\* a document-level failure: the file cannot be opened, its page list
\* cannot be read, or a page's text source throws
FailedDocument(file) ==
    \/ ~file.readable
    \/ raised(file) # NoneVal
    \/ \E i \in 1..Len(file.pages) : file.pages[i] = NoneVal

\* the errors list has an entry that names the path
Reported(list, file_path) ==
    \E i \in 1..Len(list) :
        /\ Len(list[i]) >= Len(basename(file_path)) + 2
        /\ SubSeq(list[i], 1, Len(basename(file_path)) + 2)
               = basename(file_path) \o ": "

(* C16: after process_files, every document that failed at the document    *)
(* level (it cannot be opened, or its text source throws) has an entry in  *)
(* errors that identifies it; a classifier rejection adds none.            *)
C16_FailureRecorded ==
    pc = "process_files" =>
        \A i \in 1..Len(batch_paths) :
            FailedDocument(batch_disk[batch_paths[i]])
                => Reported(errors, batch_paths[i])

\* the row of the table carries the values of the record
Carries(r, rec) ==
    /\ r.file_path = rec.file_path
    /\ r.firm = rec.firm
    /\ r.subject = rec.subject
    /\ r.amount = rec.amount
    /\ r.currency = rec.currency

\* the last record of a call's argument that has the file_path of record i
LastFor(recs, i) ==
    recs[MaxOf({j \in 1..Len(recs) : recs[j].file_path = recs[i].file_path})]

(* C17: after any sequence of save_offer, save_offers_batch, reset_db and  *)
(* standardize_existing_records calls the table holds at most one row per  *)
(* file_path, and after a save the row of each saved file_path carries the *)
(* firm, subject, amount and currency of the record saved last for it.     *)
C17_UpsertByPath ==
    pc \in {"db", "save_offer", "save_offers_batch", "reset_db",
            "standardize_existing_records"} =>
        /\ \A r1, r2 \in db_rows :
              (r1.file_path = r2.file_path \/ r1.id = r2.id) => r1 = r2
        /\ pc \in {"save_offer", "save_offers_batch"} =>
              \A i \in 1..Len(db_args) :
                  \E r \in db_rows : Carries(r, LastFor(db_args, i))

\* a batch with the same path twice, saved over an older row of that path
C17_Witness ==
    /\ pc = "save_offers_batch"
    /\ Len(db_args) = 2
    /\ db_args[1].file_path = db_args[2].file_path
    /\ db_args[1] # db_args[2]
    /\ db_next_id > 3
    /\ \E r \in db_rows : Carries(r, db_args[2]) /\ r.id = db_next_id - 1

\* the name of the folder root_folder denotes, a separator at its end or not
FolderName(root_folder) ==
    IF root_folder # "" /\ CharAt(root_folder, Len(root_folder)) = "/"
    THEN basename(SubSeq(root_folder, 1, Len(root_folder) - 1))
    ELSE basename(root_folder)

\* the folders at depth 0..3 whose name matches 'teklif'
Matched(fs, root_folder) ==
    {d \in fs.dirs :
        /\ Len(d) <= 3
        /\ is_offer_folder(IF d = <<>> THEN FolderName(root_folder)
                           ELSE d[Len(d)])}

Under(d, p) == Len(d) < Len(p) /\ SubSeq(p, 1, Len(d)) = d

(* C18: scan_company_offer_pdfs returns PDFs only from folders named like  *)
(* 'teklif' at depth 0 (the root), 1, 2 or 3: every returned path lies     *)
(* under such a folder, every PDF under such a folder is returned, a PDF   *)
(* whose only matching ancestor is deeper is not returned, and a root that *)
(* is no directory gives the empty list.                                   *)
C18_OfferFolders ==
    pc = "scan_company_offer_pdfs" =>
        /\ \A i \in 1..Len(scan_out) :
              \E d \in Matched(scan_fs, scan_root) : Under(d, scan_out[i])
        /\ \A f \in scan_fs.files :
              (is_pdf(f[Len(f)])
                   /\ \E d \in Matched(scan_fs, scan_root) : Under(d, f))
                  => \E i \in 1..Len(scan_out) : scan_out[i] = f
        /\ <<>> \notin scan_fs.dirs => scan_out = <<>>

(* C23: scan_company_offer_pdfs returns each PDF path at most once, also   *)
(* when a folder matching 'teklif' lies inside another matching folder     *)
(* within depth 3.                                                         *)
C23_EachPathOnce ==
    pc = "scan_company_offer_pdfs" =>
        \A i, j \in 1..Len(scan_out) : scan_out[i] = scan_out[j] => i = j

\* the step is a call of standardize_existing_records
StandardizeStep ==
    pc' = "standardize_existing_records" /\ db_calls' = db_calls + 1

\* the rows of the table whose firm or currency the step changes
ChangedRows ==
    {r \in db_rows :
        \E r2 \in db_rows' :
            r2.id = r.id /\ (r2.firm # r.firm \/ r2.currency # r.currency)}

(* C24: standardize_existing_records returns the number of rows whose firm *)
(* or currency it changed and leaves file_path, subject and amount of each *)
(* row as they are; run a second time with no write in between it updates  *)
(* 0 rows and leaves every row unchanged, whatever the table holds.        *)
C24_FixedPoint ==
    [][StandardizeStep =>
          /\ db_result' = Some(Cardinality(ChangedRows))
          /\ \A r \in db_rows :
                \E r2 \in db_rows' :
                    /\ r2.id = r.id
                    /\ r2.file_path = r.file_path
                    /\ r2.subject = r.subject
                    /\ r2.amount = r.amount
          /\ pc = "standardize_existing_records" =>
                db_result' = Some(0) /\ db_rows' = db_rows]_vars

\* the pages among the first three that have a non-blank line
ReadPages(pages_text) ==
    SelectSeq(Take(pages_text, 3), LAMBDA t : page_lines(t) # <<>>)

(* C21: extract_firm and extract_subject read only the pages of index 0, 1 *)
(* and 2: their result is that of the first three pages alone, and an      *)
(* empty page among these is skipped, the scan going on with the next one; *)
(* extract_amount_from_pages considers every page: it returns an amount    *)
(* exactly when some page of the document, taken alone, yields one.        *)
C21_FirstThreePages ==
    /\ pc = "extract_firm" =>
          /\ Len(pages_in) > 3 => firm_out = extract_firm(Take(pages_in, 3))
          /\ ReadPages(pages_in) # pages_in =>
                firm_out = extract_firm(ReadPages(pages_in))
    /\ pc = "extract_subject" =>
          /\ Len(pages_in) > 3 =>
                subject_out = extract_subject(Take(pages_in, 3))
          /\ ReadPages(pages_in) # pages_in =>
                subject_out = extract_subject(ReadPages(pages_in))
    /\ pc = "extract_amount_from_pages" =>
          (amount_out[1] # NoneVal
              <=> \E q \in 1..Len(pages_in) :
                      extract_amount_from_pages(<<pages_in[q]>>)[1] # NoneVal)

\* two empty pages are passed over, the third gives the firm, and the
\* fourth page, which names another firm, is not read
C21_Witness ==
    /\ pc = "extract_firm"
    /\ pages_in = <<"", "", "Firma: Beta Gida\nKonu: Soya Yagi",
                    "Firma: Acme Gida\nKonu: Zeytin Yagi">>
    /\ firm_out = "Beta Gida"

\* the paths stored in the database
StoredPaths == {r.file_path : r \in db_rows}

\* the paths the last scan of the folder found
FoundPaths == {path_of(scan_root, scan_out[i]) : i \in 1..Len(scan_out)}

(* C22: in the folder-scan flow a PDF whose path is stored in the database *)
(* is never passed to process_files, every found path that is not stored   *)
(* is parsed, and when every found path is stored nothing is parsed; so a  *)
(* rescan after saving parses no saved document again, while rejected or   *)
(* unsaved documents are parsed again.                                     *)
C22_StoredNotParsed ==
    pc = "scan_folder" =>
        /\ \A i \in 1..Len(attempted) : attempted[i] \notin StoredPaths
        /\ \A f \in FoundPaths \ StoredPaths :
              \E i \in 1..Len(attempted) : attempted[i] = f
        /\ \A i \in 1..Len(attempted) : attempted[i] \in FoundPaths
        /\ FoundPaths \subseteq StoredPaths => attempted = <<>>

\* a rescan after a save: a found document is stored and is passed over,
\* another one, which gave no record, is parsed again
C22_Witness ==
    /\ pc = "scan_folder"
    /\ db_calls = 3
    /\ FoundPaths \cap StoredPaths # {}
    /\ attempted # <<>>
    /\ records = <<>>

(* C4: a non-null amount returned by parse_amount is strictly positive; a  *)
(* token of zeros and separators with at least 3 digits never yields 0.    *)
C4_AmountPositive ==
    ParsedAmount /\ amt_out[1] # NoneVal => amt_out[1][1].m > 0

(* C5: parse_amount returns (null, null) for the small noise amounts       *)
(* "1.00" and "2.00", with any currency.                                   *)
C5_NoiseRejected ==
    ParsedAmount /\ raw_in \in {"1.00", "2.00"} =>
        amt_out = <<NoneVal, NoneVal>>

(* C6: when the token (spaces removed, at least 3 digits) holds both ','   *)
(* and '.', the separator occurring last is the decimal separator and      *)
(* every occurrence of the other is stripped; "1.677 289,00" gives         *)
(* 1677289.00 and "1,234.56" gives 1234.56.                                *)
C6_LastSeparatorIsDecimal ==
    ParsedAmount =>
        /\ (/\ Contains(Token(raw_in), ",")
            /\ Contains(Token(raw_in), ".")
            /\ NumDigits(raw_in) >= 3
            /\ Count(raw_in, {"\t", "\n", "\r"}) = 0)
                => amt_out[1] = RefBoth(Token(raw_in))
        /\ (raw_in = "1.677 289,00" => amt_out[1] = Decimal("1677289", ""))
        /\ (raw_in = "1,234.56" => amt_out[1] = Decimal("1234", "56"))

C6_Witness ==
    /\ ParsedAmount
    /\ raw_in = "1.677 289,00"
    /\ cur_in = Some("Euro")
    /\ amt_out = <<Some([m |-> 1677289, e |-> 0]), Some("EUR")>>

(* C7: when the token holds '.' but no ',' (and is not rejected as noise), *)
(* all dots are stripped if and only if the text after the last '.' has    *)
(* exactly 3 characters; otherwise the dots stay as decimal points.        *)
(* "27.560" with a null currency gives (27560.0, null), "1.234.567" gives  *)
(* 1234567, "27.56" gives 27.56.                                           *)
C7_DotOnly ==
    ParsedAmount =>
        /\ (/\ Contains(Token(raw_in), ".")
            /\ ~Contains(Token(raw_in), ",")
            /\ NumDigits(raw_in) >= 3
            /\ Count(raw_in, {"\t", "\n", "\r"}) = 0)
                => amt_out[1] = RefDotOnly(Token(raw_in))
        /\ (raw_in = "27.560" /\ cur_in = NoneVal
                => amt_out = <<Decimal("27560", ""), NoneVal>>)
        /\ (raw_in = "1.234.567" => amt_out[1] = Decimal("1234567", ""))
        /\ (raw_in = "27.56" => amt_out[1] = Decimal("27", "56"))

C7_Witness ==
    /\ ParsedAmount
    /\ raw_in = "27.560"
    /\ cur_in = NoneVal
    /\ amt_out = <<Some([m |-> 27560, e |-> 0]), NoneVal>>

(* C8: when the token holds ',' but no '.', every ',' is replaced by '.';  *)
(* with at least 3 digits the result is the value of the replaced string,  *)
(* and (null, null) when that string is no number (two or more commas,     *)
(* e.g. "1,925,000").                                                      *)
C8_CommaOnly ==
    ParsedAmount =>
        /\ (/\ Contains(Token(raw_in), ",")
            /\ ~Contains(Token(raw_in), ".")
            /\ NumDigits(raw_in) >= 3
            /\ Count(raw_in, {"\t", "\n", "\r"}) = 0)
                => /\ amt_out[1] = RefCommaOnly(Token(raw_in))
                   /\ (Count(raw_in, {","}) >= 2
                           => amt_out = <<NoneVal, NoneVal>>)
        /\ (raw_in = "1,925,000" => amt_out = <<NoneVal, NoneVal>>)
        /\ (raw_in = "1234,56" => amt_out[1] = Decimal("1234", "56"))

C8_Witness ==
    /\ ParsedAmount
    /\ raw_in = "1,925,000"
    /\ amt_out = <<NoneVal, NoneVal>>

(* C9 as claimed: for every canonical decimal string d with at least 3     *)
(* digits, parse_amount returns the value d denotes, whatever the number   *)
(* of fractional digits ("1.125" gives 1.125).                             *)
C9_CanonicalIdempotent ==
    ParsedAmount /\ IsCanonicalDecimal(raw_in) /\ NumDigits(raw_in) >= 3 =>
        LET p == LastSeparator(raw_in)
        IN  amt_out = <<Decimal(SubSeq(raw_in, 1, p - 1),
                                SubSeq(raw_in, p + 1, Len(raw_in))),
                        normalize_currency(cur_in)>>

(* C9 amended: for every canonical decimal string d with at least 3        *)
(* digits, parse_amount returns the value d denotes unless d has exactly   *)
(* 3 fractional digits; then the '.' is read as a thousands separator and  *)
(* the result is the integer written by the digits of d ("1.125" gives     *)
(* 1125.0).  "1234.56" gives 1234.56.                                      *)
C9_CanonicalExceptThreeDigits ==
    ParsedAmount /\ IsCanonicalDecimal(raw_in) /\ NumDigits(raw_in) >= 3 =>
        LET p == LastSeparator(raw_in)
            ip == SubSeq(raw_in, 1, p - 1)
            fp == SubSeq(raw_in, p + 1, Len(raw_in))
        IN  /\ amt_out[1] = IF Len(fp) = 3 THEN Decimal(ip \o fp, "")
                                           ELSE Decimal(ip, fp)
            /\ amt_out[2] = normalize_currency(cur_in)
            /\ (raw_in = "1234.56" /\ cur_in = Some("EUR")
                    => amt_out = <<Some([m |-> 123456, e |-> 2]), Some("EUR")>>)

C9_Witness ==
    /\ ParsedAmount
    /\ raw_in = "1234.56"
    /\ cur_in = Some("EUR")
    /\ amt_out = <<Some([m |-> 123456, e |-> 2]), Some("EUR")>>

(* C10: normalize_currency maps null or empty input to null; every case    *)
(* variant of {euro sign, euro, EUR} to "EUR", of {lira sign, TL, TRY} to  *)
(* "TL", of USD to "USD"; passes every other token through upper-cased     *)
(* and stripped; and is idempotent.                                        *)
C10_Mapping ==
    pc \in {"normalize_currency", "normalize_currency_twice"} =>
        /\ (cur_in \in {NoneVal, Some("")} => cur_out = NoneVal)
        /\ \A c \in {"@"} \cup CaseVariants("euro") \cup CaseVariants("eur") :
               cur_in = Some(c) => cur_out = Some("EUR")
        /\ \A c \in {"#"} \cup CaseVariants("tl") \cup CaseVariants("try") :
               cur_in = Some(c) => cur_out = Some("TL")
        /\ \A c \in CaseVariants("usd") : cur_in = Some(c) => cur_out = Some("USD")
        /\ (/\ cur_in \notin {NoneVal, Some("")}
            /\ Strip(Upper(cur_in[1])) \notin
                   {"@", "EURO", "EUR", "#", "TL", "TRY", "USD"})
                => cur_out = Some(Strip(Upper(cur_in[1])))

C10_Idempotent ==
    pc = "normalize_currency_twice" => cur_out2 = cur_out

C10_NormalizeCurrency == C10_Mapping /\ C10_Idempotent

(* C11: normalize_firm_name returns a name of length <= 2 unchanged; a     *)
(* name that already carries a canonical abbreviation keeps it, so that    *)
(* "Acme Ltd." is returned as "Acme Ltd."; and normalizing a normalized    *)
(* name changes nothing.                                                   *)
C11_NormalizeFirmName ==
    /\ pc \in {"normalize_firm_name", "normalize_firm_name_twice"} =>
          /\ (Len(name_in) <= 2 => name_out = name_in)
          /\ (name_in = "Acme Ltd." => name_out = "Acme Ltd.")
    /\ pc = "normalize_firm_name_twice" => name_out2 = name_out

=============================================================================
